---- MODULE Spec2Model ----
(***************************************************************************)
(* Model of the HTML exporter (src/unnamed/part_003, lines 594-1291):      *)
(* the worker pool mapWithConcurrency and the export pipeline              *)
(* generateExportHTML built on it.                                         *)
(*                                                                         *)
(* Strings that the code splits on "/" (image src values, archive keys,    *)
(* URLs) are modelled as the sequence of their "/"-separated segments, so  *)
(* "images/Q1/a.png" is <<"images", "Q1", "a.png">> and a leading slash    *)
(* is a leading empty segment.  String concatenation with a "/" between    *)
(* the operands is sequence concatenation.                                 *)
(***************************************************************************)
EXTENDS Integers, Sequences, FiniteSets, TLC

VARIABLES
    pc,                  \* position of the caller: of generateExportHTML, or "map" for a bare mapWithConcurrency call
    mapper,              \* which closure the running mapWithConcurrency applies: "op", "question" or "image"
    items,               \* mapWithConcurrency: items
    limit,               \* mapWithConcurrency: limit
    nextIndex,           \* mapWithConcurrency: nextIndex (0-based, as in the code)
    results,             \* mapWithConcurrency: results, a function on 0..items.length-1
    wk,                  \* one record per worker() invocation: where it is suspended
    mapState,            \* the promise mapWithConcurrency returned: idle / pending / resolved / rejected
    calls,               \* history: how many times the mapper was invoked for each index
    returned,            \* history: the value the mapper returned for each index
    completionOrder,     \* history: the indices of a bare call or of the question phase, in the order their operations completed
    questionOutcome,     \* history: what the question closure returned for each position of questionIds
    generated,           \* the promise of zip.generateAsync: none / pending / fulfilled / rejected
    questionIds,         \* generateExportHTML: questionIds
    processedQuestions,  \* generateExportHTML: processedQuestions
    failedIds,           \* generateExportHTML: failedIds
    questions,           \* generateExportHTML: questions
    html,                \* generateExportHTML: html, as the sequence of .instance blocks inside the fixed shell
    imagePaths,          \* generateExportHTML: imagePaths
    failedImagePathSet,  \* generateExportHTML: failedImagePathSet (a JS Set: insertion-ordered, no duplicates)
    zip,                 \* generateExportHTML: zip, the entries of the JSZip object in insertion order
    processedImages,     \* generateExportHTML: processedImages
    progressCalls,       \* history: the onProgress calls so far, in call order
    progressCount,       \* history: how many onProgress calls each item of each phase caused
    fetchCount,          \* history: how many times fetch() was called for each URL
    exportResult,        \* what the promise of generateExportHTML settled with
    call,                \* a direct call of one of the synchronous functions: its name and arguments
    ret,                 \* what that call returned, or that it threw
    props,               \* QuestionRenderer: the props of the last render (questionId)
    status,              \* QuestionRenderer: the state status
    error,               \* QuestionRenderer: the state error
    height,              \* QuestionRenderer: the state height
    iframeRef,           \* QuestionRenderer: iframeRef.current, as the number of the effect that made the iframe (0 for null)
    effects,             \* QuestionRenderer: one record per run of the first effect: its controller, its iframe, where its onload handler is
    reported             \* history: the status last passed to onStatusChange for each question id

mapVars == <<mapper, items, limit, nextIndex, results, wk, mapState, calls, returned, completionOrder>>
exportVars == <<questionIds, processedQuestions, failedIds, questions, html, imagePaths,
                failedImagePathSet, zip, processedImages, generated, exportResult>>
historyVars == <<progressCalls, progressCount, fetchCount, questionOutcome>>
callVars == <<call, ret>>
rendererVars == <<props, status, error, height, iframeRef, effects, reported>>
vars == <<pc, mapVars, exportVars, historyVars, callVars, rendererVars>>

----------------------------------------------------------------------------
(* Bounds of the model *)

MaxItems == 3        \* longest items sequence handed to a bare mapWithConcurrency call
MaxLimit == 3        \* largest limit handed to a bare mapWithConcurrency call
MaxIds == 2          \* longest questionIds sequence handed to generateExportHTML
MaxAttrs == 2        \* most attributes on the paragraph tag handed to addLexicalClass
MaxRefs == 1         \* most src attributes in the fragment handed to rewriteImagePaths
MaxChoices == 2      \* most choices of the mcq, mrq and opinion parts handed to renderAnswers
MaxGapKeys == 3      \* most gap keys of the gap parts handed to renderAnswers
MaxSegments == 5     \* most "/"-separated segments of the path handed to resolveImageUrl
MaxEffects == 2      \* most runs of the first effect of one QuestionRenderer

(* Program constants *)

QUESTION_FETCH_CONCURRENCY == 6
IMAGE_FETCH_CONCURRENCY == 10

BASE_URL == <<"", "api", "questions">>
S3_BASE == <<"", "api", "questions">>
HTML_ENTRY == <<"Questions_Export.html">>

----------------------------------------------------------------------------
(* Values *)

Null == [null |-> TRUE]
Hole == [hole |-> TRUE]                 \* a slot of new Array(n) that was never written
NoWorker == [st |-> "done", idx |-> -1, val |-> Null]

Min(a, b) == IF a < b THEN a ELSE b
Max(a, b) == IF a > b THEN a ELSE b

SeqsUpTo(S, n) == UNION {[1..k -> S] : k \in 0..n}
ToSet(s) == {s[k] : k \in 1..Len(s)}
NoDuplicates(s) == \A j, k \in 1..Len(s) : s[j] = s[k] => j = k

\* [...new Set(s)] and Set.prototype.add: first occurrences, in order
RECURSIVE Dedupe(_)
Dedupe(s) ==
    IF s = <<>> THEN <<>>
    ELSE LET front == Dedupe(SubSeq(s, 1, Len(s) - 1))
             last == s[Len(s)]
         IN IF last \in ToSet(front) THEN front ELSE Append(front, last)

SetAdd(s, x) == IF x \in ToSet(s) THEN s ELSE Append(s, x)

\* Array.prototype.map(...).flat over a sequence of sequences
RECURSIVE Flatten(_)
Flatten(ss) == IF ss = <<>> THEN <<>> ELSE Head(ss) \o Flatten(Tail(ss))

----------------------------------------------------------------------------
(* Markup *)

\* The text that the paragraph patterns read is modelled as a sequence of
\* pieces: "<p", ">", " ", "=", the two quote characters, and words.  A
\* pattern matches pieces where the regular expression matches characters, so
\* that <<"data-", "dir", "=">> holds a match of /dir\s*=/ as "data-dir="
\* does.

THEME == "LexicalTheme__paragraph"
DQ == "\""
SQ == "'"

\* \s
IsSpace(c) == c = " "

\* the first index from k on whose piece is no white space (Len + 1 if none)
RECURSIVE SkipSpaces(_, _)
SkipSpaces(s, k) == IF k <= Len(s) /\ IsSpace(s[k]) THEN SkipSpaces(s, k + 1) ELSE k

\* the first index from k on whose piece is c (0 if none)
RECURSIVE IndexFrom(_, _, _)
IndexFrom(s, c, k) ==
    IF k > Len(s) THEN 0 ELSE IF s[k] = c THEN k ELSE IndexFrom(s, c, k + 1)

\* /word\s*=/.test(attrs), for /class\s*=/ and /dir\s*=/
NameThenEquals(attrs, word) ==
    \E k \in 1..Len(attrs) :
        /\ attrs[k] = word
        /\ LET e == SkipSpaces(attrs, k + 1) IN e <= Len(attrs) /\ attrs[e] = "="

\* /LexicalTheme__paragraph/.test(existingAttrs)
HasTheme(attrs) == \E k \in 1..Len(attrs) : attrs[k] = THEME

\* where /class\s*=\s*"([^"]*)"/ matches from the piece at k: the indices of
\* the two quotes, or none
ClassMatchAt(attrs, k) ==
    IF attrs[k] # "class" THEN Null
    ELSE LET e == SkipSpaces(attrs, k + 1)
         IN IF e > Len(attrs) \/ attrs[e] # "=" THEN Null
            ELSE LET q == SkipSpaces(attrs, e + 1)
                 IN IF q > Len(attrs) \/ attrs[q] # DQ THEN Null
                    ELSE LET c == IndexFrom(attrs, DQ, q + 1)
                         IN IF c = 0 THEN Null ELSE [from |-> k, open |-> q, close |-> c]

\* newAttrs.replace(/class\s*=\s*"([^"]*)"/, 'class="$1 LexicalTheme__paragraph"'):
\* the leftmost match is replaced, and nothing when there is none
AddToClass(attrs) ==
    LET starts == {k \in 1..Len(attrs) : ClassMatchAt(attrs, k) # Null}
    IN IF starts = {} THEN attrs
       ELSE LET m == ClassMatchAt(attrs, CHOOSE k \in starts : \A j \in starts : k <= j)
            IN SubSeq(attrs, 1, m.from - 1)
               \o <<"class", "=", DQ>> \o SubSeq(attrs, m.open + 1, m.close - 1) \o <<" ", THEME, DQ>>
               \o SubSeq(attrs, m.close + 1, Len(attrs))

\* the replacer of addLexicalClass: the attributes of the new tag, from those
\* that the pattern captured (none captured counts as '')
WithClass(existingAttrs) ==
    IF ~NameThenEquals(existingAttrs, "class")
    THEN existingAttrs \o <<" ", "class", "=", DQ, THEME, DQ>>
    ELSE IF ~HasTheme(existingAttrs) THEN AddToClass(existingAttrs)
    ELSE existingAttrs
WithDir(newAttrs, dir) ==
    IF ~NameThenEquals(newAttrs, "dir")
    THEN newAttrs \o <<" ", "dir", "=", DQ, dir, DQ>>
    ELSE newAttrs
NewAttrs(existingAttrs, dir) == WithDir(WithClass(existingAttrs), dir)

\* where /<p(\s[^>]*)?\s*>/ matches from the piece at i: the index of its ">",
\* or 0.  After "<p" comes ">" at once, or white space and then everything up
\* to the next ">"
TagEnd(s, i) ==
    IF s[i] # "<p" \/ i = Len(s) THEN 0
    ELSE IF s[i + 1] = ">" THEN i + 1
    ELSE IF IsSpace(s[i + 1]) THEN IndexFrom(s, ">", i + 2)
    ELSE 0

\* html.replace(/<p(\s[^>]*)?\s*>/g, ...): the matches from the piece at i on,
\* left to right and not overlapping
RECURSIVE ReplaceParagraphTags(_, _, _)
ReplaceParagraphTags(s, i, dir) ==
    IF i > Len(s) THEN <<>>
    ELSE LET j == TagEnd(s, i)
         IN IF j = 0 THEN <<s[i]>> \o ReplaceParagraphTags(s, i + 1, dir)
            ELSE <<"<p">> \o NewAttrs(SubSeq(s, i + 1, j - 1), dir) \o <<">">>
                 \o ReplaceParagraphTags(s, j + 1, dir)

addLexicalClass(fragment, dir) == ReplaceParagraphTags(fragment, 1, dir)

----------------------------------------------------------------------------
(* Labels *)

Undefined == [undefined |-> TRUE]

\* A string value is [str |-> s]; the Arabic letters of the table are written
\* by their code points.
Str(s) == [str |-> s]

LABEL_ENTITY_MAP ==
    [label \in {"U+0623", "U+0628", "U+062C", "U+062F", "U+0647 U+0640", "U+0647", "U+0648",
                "A", "B", "C", "D", "E", "F"} |->
        CASE label = "U+0623" -> "&#x623;"
          [] label = "U+0628" -> "&#x628;"
          [] label = "U+062C" -> "&#x62C;"
          [] label = "U+062F" -> "&#x62F;"
          [] label = "U+0647 U+0640" -> "&#x647;"
          [] label = "U+0647" -> "&#x647;"
          [] label = "U+0648" -> "&#x648;"
          [] OTHER -> label]

\* LABEL_ENTITY_MAP is an object literal: what it does not hold itself it
\* inherits from Object.prototype, whose properties are functions (and, for
\* __proto__, the prototype object)
ObjectPrototypeProperties ==
    {"constructor", "toString", "toLocaleString", "valueOf", "hasOwnProperty",
     "isPrototypeOf", "propertyIsEnumerable", "__proto__"}

\* LABEL_ENTITY_MAP[label]
LabelLookup(label) ==
    IF label \in DOMAIN LABEL_ENTITY_MAP THEN Str(LABEL_ENTITY_MAP[label])
    ELSE IF label \in ObjectPrototypeProperties THEN [inherited |-> label]
    ELSE Undefined

\* what || takes for true: every value but undefined, null and ''
Truthy(v) == v \notin {Undefined, Null, Str("")}

\* getLabelEntity(label), for a label string
getLabelEntity(label) ==
    IF Truthy(LabelLookup(label)) THEN LabelLookup(label) ELSE Str(label)

----------------------------------------------------------------------------
(* Image references *)

\* A src attribute of a fragment, with the tag that holds it: the name of the
\* tag, the pieces between the name and the attribute, the quote character
\* around the value, and the value as its "/"-separated segments.
Ref(tag, before, quote, src) == [tag |-> tag, before |-> before, quote |-> quote, src |-> src]
Img(src) == Ref("img", <<" ">>, DQ, src)
Other(src) == Ref("other", <<" ">>, DQ, src)

ImageExtensions == {"svg", "png", "jpg", "jpeg", "gif", "webp"}
FileStems == {"a", "b", "v", "diagram"}

\* the i flag of the two patterns: an extension matches in either case
UpperCase(ext) ==
    CASE ext = "svg" -> "SVG" [] ext = "png" -> "PNG" [] ext = "jpg" -> "JPG"
      [] ext = "jpeg" -> "JPEG" [] ext = "gif" -> "GIF" [] ext = "webp" -> "WEBP"

\* [^"]*\.(?:svg|png|jpg|jpeg|gif|webp) followed by the closing quote: the
\* src ends in a dot and a recognized extension
HasImageExtension(src) ==
    /\ src # <<>>
    /\ \E stem \in FileStems, ext \in ImageExtensions :
         src[Len(src)] \in {stem \o "." \o ext, stem \o "." \o UpperCase(ext)}

\* /^https?:\/\//.test(src)
IsAbsolute(src) == Len(src) >= 3 /\ src[1] \in {"http:", "https:"} /\ src[2] = ""

\* src.startsWith('images/')
StartsWithImagesNever(src) == FALSE
StartsWithImages(src) == Len(src) >= 2 /\ src[1] = "images"

\* (<img[^>]*\ssrc\s*=\s*") reaches the attribute: the tag is an <img>, no
\* ">" stands between its name and the attribute, white space stands right
\* before the attribute, and the value is in double quotes
ImgSrcMatches(ref) ==
    /\ ref.tag = "img"
    /\ ">" \notin ToSet(ref.before)
    /\ ref.before # <<>> /\ IsSpace(ref.before[Len(ref.before)])
    /\ ref.quote = DQ

\* `${pre}images/${questionId}/${src}${post}` puts the question id into the
\* path as it is: an id that holds "/" contributes the segments around it
IdSegments(questionId) == IF questionId = "/Q1" THEN <<"", "Q1">> ELSE <<questionId>>

\* rewriteImagePaths, on one src attribute of the fragment
RewriteRef(ref, questionId) ==
    IF /\ ImgSrcMatches(ref)
       /\ HasImageExtension(ref.src)
       /\ ~(IsAbsolute(ref.src) \/ StartsWithImages(ref.src))
    THEN [ref EXCEPT !.src = <<"images">> \o IdSegments(questionId) \o ref.src]
    ELSE ref

\* rewriteImagePaths(html, questionId), on the src-bearing tags of a fragment
rewriteImagePaths(refs, questionId) ==
    [k \in 1..Len(refs) |-> RewriteRef(refs[k], questionId)]

\* src\s*=\s*"([^"]*\.(?:svg|png|jpg|jpeg|gif|webp))" and the test inside the
\* loop of collectImagePaths, for one src attribute of any tag
Collects(ref) == ref.quote = DQ /\ HasImageExtension(ref.src) /\ ~IsAbsolute(ref.src)

RECURSIVE CollectRefs(_)
CollectRefs(refs) ==
    IF refs = <<>> THEN <<>>
    ELSE (IF Collects(Head(refs)) THEN <<Head(refs).src>> ELSE <<>>) \o CollectRefs(Tail(refs))

\* collectImagePaths(html): the fixed shell holds no src that the pattern
\* matches, so the matches are those of the blocks, in document order
collectImagePaths(doc) == CollectRefs(Flatten([k \in 1..Len(doc) |-> doc[k].refs]))

\* imgPath.replace(/^\/+/, '').split('/')
StripOneLeadingSlash(path) == IF Len(path) > 1 /\ Head(path) = "" THEN Tail(path) ELSE path
RECURSIVE StripLeadingSlashes(_)
StripLeadingSlashes(path) ==
    IF Len(path) > 1 /\ Head(path) = "" THEN StripLeadingSlashes(Tail(path)) ELSE path

resolveImageUrl(imgPath) ==
    LET parts == StripLeadingSlashes(imgPath)
    IN IF Len(parts) < 3 \/ parts[1] # "images" THEN Null
       ELSE LET questionId == parts[2]
                filename == SubSeq(parts, 3, Len(parts))
            IN IF questionId = "" \/ filename = <<"">> THEN Null
               ELSE [url |-> S3_BASE \o <<questionId>> \o filename]

----------------------------------------------------------------------------
(* Values of a question record, and rendered markup *)

\* A value read from the JSON of a record is undefined (the field is not
\* there), null, a boolean, a number, a string, an array or an object.  A
\* string of markup is the pair of what the paragraph patterns read (its
\* pieces) and what the image patterns read (its src attributes); a string
\* that names something (a type, a label) is Str.  An object is a record of
\* its fields.
Bool(b) == [bool |-> b]
Num(n) == [num |-> n]
Arr(elements) == [arr |-> elements]
Html(text, refs) == [text |-> text, refs |-> refs]
Text(pieces) == Html(pieces, <<>>)
EmptyHtml == Html(<<>>, <<>>)

IsArray(v) == DOMAIN v = {"arr"}
IsHtml(v) == DOMAIN v = {"text", "refs"}
IsNullish(v) == v \in {Undefined, Null}

\* what if (...), ?: , || and ! take for false
Falsy(v) == v \in {Undefined, Null, Bool(FALSE), Num(0), Str(""), EmptyHtml}

\* a template literal or a join puts one string after another
Cat(a, b) == Html(a.text \o b.text, a.refs \o b.refs)

\* what a function that threw a TypeError leaves its caller with
Threw == [threw |-> TRUE]

\* array.map(f), for an f that may throw: the results in order, or the throw
AnyThrew(outs) == \E k \in 1..Len(outs) : outs[k] = Threw

\* what a renderer leaves in place of its fragment when it throws
Raised == <<Threw>>

\* String(v), for the values a record may hold in place of markup; an array
\* is its elements joined by commas, null and undefined among them as ''
RECURSIVE ToHtml(_)
ToHtml(v) ==
    IF IsHtml(v) THEN v
    ELSE IF IsArray(v)
    THEN LET elements == [k \in 1..Len(v.arr) |->
                            IF IsNullish(v.arr[k]) THEN EmptyHtml ELSE ToHtml(v.arr[k])]
             joined[k \in 0..Len(elements)] ==
                 IF k = 0 THEN EmptyHtml
                 ELSE IF k = 1 THEN elements[1]
                 ELSE Cat(Cat(joined[k - 1], Text(<<",">>)), elements[k])
         IN joined[Len(elements)]
    ELSE IF v = Undefined THEN Text(<<"undefined">>)
    ELSE IF v = Null THEN Text(<<"null">>)
    ELSE IF DOMAIN v = {"num"} THEN Text(<<ToString(v.num)>>)
    ELSE IF DOMAIN v = {"bool"} THEN Text(<<IF v.bool THEN "true" ELSE "false">>)
    ELSE IF DOMAIN v = {"str"} THEN Text(IF v.str = "" THEN <<>> ELSE <<v.str>>)
    ELSE IF DOMAIN v = {"inherited"} THEN Text(<<"function " \o v.inherited \o "() { [native code] }">>)
    ELSE Text(<<"[object Object]">>)

\* s.trim(): white space at either end goes
RECURSIVE TrimStart(_)
TrimStart(pieces) ==
    IF pieces # <<>> /\ IsSpace(Head(pieces)) THEN TrimStart(Tail(pieces)) ELSE pieces
RECURSIVE TrimEnd(_)
TrimEnd(pieces) ==
    IF pieces # <<>> /\ IsSpace(pieces[Len(pieces)])
    THEN TrimEnd(SubSeq(pieces, 1, Len(pieces) - 1)) ELSE pieces
Trim(pieces) == TrimEnd(TrimStart(pieces))

\* /<\s*p\b/i.test(s): "<p" in either case, and no word character after it
HasParagraphTag(pieces) ==
    \E k \in 1..Len(pieces) :
        /\ pieces[k] \in {"<p", "<P"}
        /\ k = Len(pieces) \/ pieces[k + 1] \in {" ", ">", "=", DQ, SQ, "<p", "<P", "</p>"}

\* wrapChoiceValue(valueHtml, dir): the .choice-value container, as its dir
\* attribute and its content
NormalizedValue(valueWithLexicalClass, dir) ==
    IF HasParagraphTag(valueWithLexicalClass) THEN valueWithLexicalClass
    ELSE <<"<p", " ", "class", "=", DQ, THEME, DQ, " ", "dir", "=", DQ, dir, DQ, ">">>
         \o valueWithLexicalClass \o <<"</p>">>
ChoiceValue(value, dir) ==
    [dir |-> dir,
     html |-> Html(NormalizedValue(Trim(addLexicalClass(Trim(value.text), dir)), dir),
                   value.refs)]
wrapChoiceValue(valueHtml, dir) ==
    ChoiceValue(IF IsNullish(valueHtml) THEN EmptyHtml ELSE ToHtml(valueHtml), dir)

\* renderChoiceItem(label, labelClass, valueHtml, dir): an <li class="">, as
\* the text and the class of its <span> and its .choice-value container
Item(label, labelClass, choiceValue) ==
    [label |-> ToHtml(label).text, labelClass |-> labelClass,
     dir |-> choiceValue.dir, html |-> choiceValue.html]
renderChoiceItem(label, labelClass, valueHtml, dir) ==
    Item(label, labelClass, wrapChoiceValue(valueHtml, dir))

\* a list of items inside <ul class="mcq_choices"> or <ol class="mcq_choices">
List(tag, entries) == <<[node |-> tag, items |-> entries]>>

IsString(v) == IsHtml(v) \/ DOMAIN v = {"str"}

\* part.choices?.length, part.gap_keys?.length, as a condition: an array or a
\* string that is not empty
HasLength(v) == (IsArray(v) /\ v.arr # <<>>) \/ (IsString(v) /\ ~Falsy(v))

----------------------------------------------------------------------------
(* The renderers of the answer of a part *)

\* A rendered answer is the sequence of the elements of the fragment ('' is
\* the empty sequence), or Raised.

\* choice.is_correct ? 'not_active answered correct' : 'not_active'
ChoiceClassAlwaysCorrect(choice) == <<"not_active", "answered", "correct">>
ChoiceClass(choice) ==
    IF Falsy(choice.is_correct) THEN <<"not_active">> ELSE <<"not_active", "answered", "correct">>

\* the callback of part.choices.map in renderMCQAnswer and of group.map in
\* renderGMRQAnswer: reading a field of a choice that is null throws
ChoiceItem(choice, dir) ==
    IF IsNullish(choice) THEN Threw
    ELSE renderChoiceItem(getLabelEntity(choice.label), ChoiceClass(choice),
                          choice.value, dir)

\* the callback of part.choices.map in renderOpinionAnswer
OpinionClassByCorrectness(choice) == ChoiceClass(choice)
OpinionClass(choice) == <<"not_active">>
OpinionItem(choice, dir) ==
    IF IsNullish(choice) THEN Threw
    ELSE renderChoiceItem(getLabelEntity(choice.label), OpinionClass(choice),
                          choice.value, dir)

\* the <ul class="mcq_choices"> around mapped items, or the throw of the map
ListOf(tag, mapped) == IF AnyThrew(mapped) THEN Raised ELSE List(tag, mapped)

renderStringAnswer(part, dir) ==
    LET answers == part.acceptable_answers
        first == IF IsArray(answers) /\ answers.arr # <<>> THEN answers.arr[1]
                 ELSE IF IsString(answers) /\ ~Falsy(answers) THEN Text(<<Head(ToHtml(answers).text)>>)
                 ELSE Undefined
        answer == IF Falsy(first) THEN EmptyHtml ELSE first
    IN List("ul", <<renderChoiceItem(Str("&#x623;"), <<"answered", "correct">>, answer, dir)>>)

renderMCQAnswer(part, dir) ==
    IF ~HasLength(part.choices) THEN <<>>
    ELSE IF ~IsArray(part.choices) THEN Raised
    ELSE ListOf("ul", [k \in 1..Len(part.choices.arr) |-> ChoiceItem(part.choices.arr[k], dir)])

renderMRQAnswer(part, dir) == renderMCQAnswer(part, dir)

renderOpinionAnswer(part, dir) ==
    IF ~HasLength(part.choices) THEN <<>>
    ELSE IF ~IsArray(part.choices) THEN Raised
    ELSE ListOf("ul", [k \in 1..Len(part.choices.arr) |-> OpinionItem(part.choices.arr[k], dir)])

\* (a, b) => a.correct_order - b.correct_order decides by this
SortKeyDisplayOrder(gapKey) == gapKey.display_order
SortKey(gapKey) == gapKey.correct_order

\* Array.prototype.sort is stable: a key goes after the keys that do not
\* compare greater
RECURSIVE Sorted(_)
Sorted(keys) ==
    IF keys = <<>> THEN <<>>
    ELSE LET front == Sorted(SubSeq(keys, 1, Len(keys) - 1))
             last == keys[Len(keys)]
             before == Cardinality({k \in 1..Len(front) : SortKey(front[k]) <= SortKey(last)})
         IN SubSeq(front, 1, before) \o <<last>> \o SubSeq(front, before + 1, Len(front))

\* part.gap_keys after renderGapAnswer: the sort is of the copy [...part.gap_keys]
GapKeysSortedInPlace(part) == Arr(Sorted(part.gap_keys.arr))
GapKeysAfterRender(part) == part.gap_keys

\* object.field: undefined when the object has no such field
Field(object, name) == IF name \in DOMAIN object THEN object[name] ELSE Undefined

\* sorted.map((gk, index) => renderChoiceItem(String(index + 1), ..., gk.value, dir))
GapItems(sorted, dir) ==
    List("ul", [index \in 1..Len(sorted) |->
                  renderChoiceItem(Num(index), <<"answered", "correct">>,
                                   Field(sorted[index], "value"), dir)])

\* [...part.gap_keys] of a string is its characters, which have no value
renderGapAnswer(part, dir) ==
    IF ~HasLength(part.gap_keys) THEN <<>>
    ELSE IF IsArray(part.gap_keys)
            /\ \E k \in 1..Len(part.gap_keys.arr) : IsNullish(part.gap_keys.arr[k])
    THEN Raised
    ELSE GapItems(IF IsArray(part.gap_keys) THEN Sorted(part.gap_keys.arr)
                  ELSE [index \in 1..Len(ToHtml(part.gap_keys).text) |-> Str("c")],
                  dir)

\* an element that is not inside a list: its class, and its content
Element(node, labelClass, content) ==
    <<[node |-> node, items |-> <<[labelClass |-> labelClass, html |-> content]>>]>>

renderFRQAnswer(part, dir) ==
    LET answers == IF Falsy(part.acceptable_answers) THEN Arr(<<>>) ELSE part.acceptable_answers
    IN IF IsArray(answers) /\ answers.arr = <<>> THEN <<>>
       ELSE LET first == IF IsArray(answers) THEN answers.arr[1]
                         ELSE IF IsString(answers) THEN Text(<<Head(ToHtml(answers).text)>>)
                         ELSE Undefined
            IN IF ~IsString(first) THEN Raised
               ELSE Element("frq-answer", <<"answered", "correct">>,
                            Html(addLexicalClass(ToHtml(first).text, dir), ToHtml(first).refs))

renderInputAnswer(part) ==
    LET ca == part.correct_answer
    IN IF Falsy(ca) THEN <<>>
       ELSE LET val == IF Field(ca, "value") # Undefined THEN ToHtml(Field(ca, "value")) ELSE EmptyHtml
                unit == IF Falsy(Field(ca, "unit")) THEN EmptyHtml
                        ELSE Cat(Text(<<" ">>), ToHtml(Field(ca, "unit")))
            IN Element("input-answer", <<"answered", "correct">>, Cat(val, unit))

renderOrderingAnswer(part, dir) ==
    LET ca == part.correct_answer
    IN IF ~IsArray(ca) THEN <<>>
       ELSE List("ol", [index \in 1..Len(ca.arr) |->
                          renderChoiceItem(Num(index), <<"answered", "correct">>, ca.arr[index], dir)])

\* the callback of pairs.map: reading A of a pair that is null throws
MatchingRow(pair) ==
    IF IsNullish(pair) THEN Threw
    ELSE [labelClass |-> <<>>,
          html |-> Cat(Cat(ToHtml(Field(pair, "A")), Text(<<"<->">>)), ToHtml(Field(pair, "B")))]

renderMatchingAnswer(part) ==
    LET ca == part.correct_answer
    IN IF ~IsArray(ca) THEN <<>>
       ELSE ListOf("table", [k \in 1..Len(ca.arr) |-> MatchingRow(ca.arr[k])])

\* renderGroup(group): group.map throws when the group is not an array
renderGroup(group, dir) ==
    IF ~IsArray(group) THEN Raised
    ELSE ListOf("ul", [k \in 1..Len(group.arr) |-> ChoiceItem(group.arr[k], dir)])

\* the .gmrq-group of two rendered groups, or the throw of either
Groups(a, b) ==
    IF a = Raised \/ b = Raised THEN Raised
    ELSE Element("strong", <<>>, Text(<<"Group A:">>)) \o a
         \o Element("strong", <<>>, Text(<<"Group B:">>)) \o b

renderGMRQAnswer(part, dir) ==
    IF Falsy(part.items) THEN <<>>
    ELSE Groups(renderGroup(Field(part.items, "A"), dir),
                renderGroup(Field(part.items, "B"), dir))

renderCountingAnswer(part) ==
    Element("input-answer", <<"answered", "correct">>, ToHtml(part.correct_answer))

\* the text of ca.src, as the segments of a path
SrcOf(v) == IF DOMAIN v = {"path"} THEN v.path ELSE ToHtml(v).text

renderPuzzleAnswer(part) ==
    LET ca == part.correct_answer
    IN IF Falsy(ca) THEN <<>>
       ELSE Element("puzzle-answer", <<>>,
                    Html(IF Falsy(Field(ca, "alt")) THEN <<"Puzzle answer">>
                         ELSE ToHtml(Field(ca, "alt")).text,
                         <<Img(SrcOf(Field(ca, "src")))>>))

\* the default branch: <p style="color:#999;">Unsupported type: ${part.type}</p>
Unsupported(type) ==
    Element("unsupported", <<>>,
            Text(<<"<p", " ", "style", "=", DQ, "color:#999;", DQ, ">", "Unsupported type: ", type, "</p>">>))

renderAnswers(part, dir) ==
    CASE part.type = "string" -> renderStringAnswer(part, dir)
      [] part.type = "mcq" -> renderMCQAnswer(part, dir)
      [] part.type = "mrq" -> renderMRQAnswer(part, dir)
      [] part.type = "frq" -> renderFRQAnswer(part, dir)
      [] part.type = "input" -> renderInputAnswer(part)
      [] part.type = "gap" -> renderGapAnswer(part, dir)
      [] part.type = "ordering" -> renderOrderingAnswer(part, dir)
      [] part.type = "matching" -> renderMatchingAnswer(part)
      [] part.type = "gmrq" -> renderGMRQAnswer(part, dir)
      [] part.type = "counting" -> renderCountingAnswer(part)
      [] part.type = "opinion" -> renderOpinionAnswer(part, dir)
      [] part.type = "puzzle" -> renderPuzzleAnswer(part)
      [] OTHER -> Unsupported(part.type)

----------------------------------------------------------------------------
(* generateQuestionHTML *)

\* question.language_code === 'ar' ? 'rtl' : 'ltr'
DirOfAlwaysLtr(question) == "ltr"
DirOf(question) == IF question.language_code = "ar" THEN "rtl" ELSE "ltr"

\* rewriteImagePaths(renderAnswers(part, dir), qId): the src attributes of a
\* rendered answer are those of the content of its elements
RewriteAnswers(nodes, qId) ==
    [k \in 1..Len(nodes) |->
        [node |-> nodes[k].node,
         items |-> [i \in 1..Len(nodes[k].items) |->
                      LET item == nodes[k].items[i]
                      IN [item EXCEPT !.html = Html(item.html.text,
                                                    rewriteImagePaths(item.html.refs, qId))]]]]

\* the src attributes of a rendered answer, in document order
AnswerRefs(nodes) ==
    Flatten([k \in 1..Len(nodes) |->
                Flatten([i \in 1..Len(nodes[k].items) |-> nodes[k].items[i].html.refs])])

\* the callback of question.content.parts.map: the .question element of one
\* part.  part.stem.replace throws when the stem is no string, and so does
\* what renderAnswers throws
PartElement(part, dir, qId, isMultiPart, answers) ==
    IF answers = Raised THEN Threw
    ELSE [partLabel |-> IF isMultiPart
                        THEN <<"<p", ">", "Part ", ToHtml(part.n).text, "</p>">>
                        ELSE <<>>,
          partno |-> part.n,
          parttype |-> part.type,
          stem |-> Html(addLexicalClass(ToHtml(part.stem).text, dir),
                        rewriteImagePaths(ToHtml(part.stem).refs, qId)),
          answers |-> RewriteAnswers(answers, qId)]
PartHTML(part, dir, qId, isMultiPart) ==
    IF IsNullish(part) \/ ~IsString(part.stem) THEN Threw
    ELSE PartElement(part, dir, qId, isMultiPart, renderAnswers(part, dir))

\* generateQuestionHTML(question): the .instance block of one record, with its
\* src attributes in document order; or Threw
Instance(dir, qId, isMultiPart, partsHTML) ==
    IF AnyThrew(partsHTML) THEN Threw
    ELSE [dirClass |-> "dir-" \o dir,
          questionid |-> qId,
          wrapperClass |-> IF isMultiPart THEN "multi-parts-question" ELSE "one-part-question",
          title |-> <<"<p", ">", "Question (", qId, ")", "</p>">>,
          parts |-> partsHTML,
          refs |-> Flatten([k \in 1..Len(partsHTML) |->
                              partsHTML[k].stem.refs \o AnswerRefs(partsHTML[k].answers)])]
generateQuestionHTML(question) ==
    IF IsNullish(question.content) \/ ~IsArray(Field(question.content, "parts")) THEN Threw
    ELSE Instance(DirOf(question), question.question_id, question.number_of_parts > 1,
                  [k \in 1..Len(question.content.parts.arr) |->
                     PartHTML(question.content.parts.arr[k], DirOf(question),
                              question.question_id, question.number_of_parts > 1)])

----------------------------------------------------------------------------
(* mapWithConcurrency *)

\* The part of the state that the synchronous code of a worker and of the
\* mapper it calls can touch, as one record.
Sync == [items |-> items, mapper |-> mapper, nextIndex |-> nextIndex, results |-> results,
         wk |-> wk, calls |-> calls, returned |-> returned, completionOrder |-> completionOrder,
         processedQuestions |-> processedQuestions, failedImagePathSet |-> failedImagePathSet,
         zip |-> zip, processedImages |-> processedImages, progressCalls |-> progressCalls,
         progressCount |-> progressCount, fetchCount |-> fetchCount,
         questionOutcome |-> questionOutcome]

Commit(s) ==
    /\ items' = s.items
    /\ mapper' = s.mapper
    /\ nextIndex' = s.nextIndex
    /\ results' = s.results
    /\ wk' = s.wk
    /\ calls' = s.calls
    /\ returned' = s.returned
    /\ completionOrder' = s.completionOrder
    /\ processedQuestions' = s.processedQuestions
    /\ zip' = s.zip
    /\ failedImagePathSet' = s.failedImagePathSet
    /\ processedImages' = s.processedImages
    /\ progressCalls' = s.progressCalls
    /\ progressCount' = s.progressCount
    /\ fetchCount' = s.fetchCount
    /\ questionOutcome' = s.questionOutcome

\* const workerCount = Math.max(1, Math.min(limit, items.length))
WorkerCountOffByOne(lim, n) == Max(1, Min(lim + 1, n))
WorkerCount(lim, n) == Max(1, Min(lim, n))

\* while (nextIndex < items.length)
LoopGuardOffByOne(s) == s.nextIndex < Len(s.items) - 1
LoopGuard(s) == s.nextIndex < Len(s.items)

\* results[currentIndex] = ...: the slot a resuming worker writes, the index
\* it captured in currentIndex before the await
ResultSlotSharedCursor(s, w) == s.nextIndex - 1
ResultSlot(s, w) == s.wk[w].idx

\* mapper(items[currentIndex], currentIndex) for the bare call: the operation
\* starts and stays in flight
StartOp(s, w, i) ==
    [s EXCEPT !.wk[w] = [st |-> "op", idx |-> i, val |-> Null]]

Inc(f, k) == IF k \in DOMAIN f THEN [f EXCEPT ![k] = @ + 1] ELSE f @@ (k :> 1)

\* The promise of the mapper call of worker w settles, with value v or (threw)
\* with a rejection: the continuation of the worker is queued
Settled(s, w, v, threw) ==
    LET i == s.wk[w].idx
    IN [s EXCEPT !.wk[w] = [st |-> IF threw THEN "threw" ELSE "ready", idx |-> i, val |-> v],
                 !.returned[i] = IF threw THEN [rejects |-> TRUE] ELSE v,
                 !.completionOrder = IF s.mapper = "image" THEN @ ELSE Append(@, i)]

\* onProgress?.(completed, total, phase), called on behalf of item i
OnProgress(s, completed, total, phase, i) ==
    [s EXCEPT !.progressCalls = Append(@, [completed |-> completed, total |-> total, phase |-> phase]),
              !.progressCount[phase][i] = @ + 1]

\* the first argument of onProgress: the counter, which the closure has just
\* incremented (and not the position of the item)
ReportedByIndex(counter, i) == i + 1
Reported(counter, i) == counter

\* the question closure up to its first await: fetch(`${BASE_URL}/${id}/${id}.json`)
StartQuestion(s, w, i) ==
    LET id == s.items[i + 1]
    IN [s EXCEPT !.wk[w] = [st |-> "fetch", idx |-> i, val |-> Null],
                 !.fetchCount = Inc(@, BASE_URL \o <<id, id \o ".json">>)]

\* how the question closure ends when the response is not ok, or when fetch or
\* response.json() throws and the catch block runs
QuestionFailedUncaught(id) == [threw |-> TRUE, val |-> Null]
QuestionFailed(id) == [threw |-> FALSE, val |-> [id |-> id, question |-> Null]]

QuestionFetched(id, question) == [threw |-> FALSE, val |-> [id |-> id, question |-> question]]

\* the finally block of the question closure, then the closure's end
QuestionFinally(s, w, end) ==
    LET i == s.wk[w].idx
        counted == [s EXCEPT !.processedQuestions = @ + 1]
        logged == [counted EXCEPT !.questionOutcome[i] = IF end.threw THEN [rejects |-> TRUE] ELSE end.val]
    IN Settled(OnProgress(logged, Reported(counted.processedQuestions, i), Len(s.items),
                          "questions", i),
               w, end.val, end.threw)

\* failedImagePathSet.add(imgPath), in the three places the image closure has it
ImageFailedUnrecorded(s, imgPath) == s
ImageFailed(s, imgPath) == [s EXCEPT !.failedImagePathSet = SetAdd(@, imgPath)]

\* JSZip: file(name, data) sets the entry of that name
ZipFile(z, name, data) ==
    IF \E k \in 1..Len(z) : z[k].name = name
    THEN [k \in 1..Len(z) |-> IF z[k].name = name THEN [name |-> name, data |-> data] ELSE z[k]]
    ELSE Append(z, [name |-> name, data |-> data])

\* processedImages += 1; onProgress?.(...); return null: the end of the image
\* closure on each of its paths
ImageFinally(s, w) ==
    LET i == s.wk[w].idx
        counted == [s EXCEPT !.processedImages = @ + 1]
    IN Settled(OnProgress(counted, Reported(counted.processedImages, i), Len(s.items),
                          "images", i),
               w, Null, FALSE)

\* processedImages += 1; onProgress?.(...); return null, inside if (!imageUrl)
UnresolvableUncounted(s, w) == Settled(s, w, Null, FALSE)
UnresolvableCounted(s, w) == ImageFinally(s, w)

\* the image closure up to its first await: an unresolvable path is recorded
\* and reported at once, any other is fetched
StartImage(s, w, i) ==
    LET imgPath == s.items[i + 1]
        imageUrl == resolveImageUrl(imgPath)
        called == [s EXCEPT !.wk[w] = [st |-> "fetch", idx |-> i, val |-> Null]]
    IN IF imageUrl = Null
       THEN UnresolvableCounted(ImageFailed(called, imgPath), w)
       ELSE [called EXCEPT !.fetchCount = Inc(@, imageUrl.url)]

\* mapper(items[currentIndex], currentIndex), up to the mapper's first await
StartMapper(s, w, i) ==
    LET t == [s EXCEPT !.calls[i] = @ + 1]
    IN CASE s.mapper = "op" -> StartOp(t, w, i)
         [] s.mapper = "question" -> StartQuestion(t, w, i)
         [] s.mapper = "image" -> StartImage(t, w, i)

\* const currentIndex = nextIndex
ClaimedIndexAlwaysFirst(s) == 0
ClaimedIndex(s) == s.nextIndex

\* worker(), from the loop test to the await (or to its return)
WorkerLoop(s, w) ==
    IF LoopGuard(s)
    THEN LET currentIndex == ClaimedIndex(s)
         IN StartMapper([s EXCEPT !.nextIndex = @ + 1], w, currentIndex)
    ELSE [s EXCEPT !.wk[w] = NoWorker]

\* Array.from({ length: workerCount }, () => worker())
RECURSIVE SpawnWorkers(_, _, _)
SpawnWorkers(s, w, workerCount) ==
    IF w > workerCount THEN s ELSE SpawnWorkers(WorkerLoop(s, w), w + 1, workerCount)

\* mapWithConcurrency(its, lim, mp), up to its await (or its return of [])
CallMap(s, its, lim, mp) ==
    LET n == Len(its)
        workerCount == WorkerCount(lim, n)
        fresh == [s EXCEPT !.items = its, !.mapper = mp, !.nextIndex = 0,
                           !.results = [i \in 0..(n - 1) |-> Hole],
                           !.calls = [i \in 0..(n - 1) |-> 0],
                           !.returned = [i \in 0..(n - 1) |-> Hole],
                           !.completionOrder = IF mp = "image" THEN @ ELSE <<>>,
                           !.wk = [w \in 1..(IF n = 0 THEN 0 ELSE workerCount) |-> NoWorker]]
    IN IF n = 0 THEN fresh ELSE SpawnWorkers(fresh, 1, workerCount)

Workers == DOMAIN wk
InFlight == {w \in Workers : wk[w].st \in {"op", "fetch", "json", "blob"}}

----------------------------------------------------------------------------
(* A bare call mapWithConcurrency(items, limit, operation) *)

ItemValues == {"i1", "i2"}

\* what operation(item, index) returns when it does not reject: a value that
\* tells which call produced it
OpValue(item, index) == [item |-> item, index |-> index]

NoFunction == [i \in {} |-> 0]

\* no QuestionRenderer is rendered
RendererIdle ==
    /\ props = Null /\ status = "loading" /\ error = Null /\ height = 250
    /\ iframeRef = 0 /\ effects = <<>> /\ reported = NoFunction

NoProgress == [questions |-> NoFunction, images |-> NoFunction]

InitMap ==
    /\ call = Null /\ ret = Null
    /\ RendererIdle
    /\ pc = "map"
    /\ mapper = "op"
    /\ items \in SeqsUpTo(ItemValues, MaxItems)
    /\ limit \in 0..MaxLimit
    /\ nextIndex = 0
    /\ results = NoFunction
    /\ wk = <<>>
    /\ mapState = "idle"
    /\ calls = NoFunction
    /\ returned = NoFunction
    /\ completionOrder = <<>>
    /\ questionIds = <<>>
    /\ processedQuestions = 0
    /\ failedIds = <<>>
    /\ questions = <<>>
    /\ html = <<>>
    /\ imagePaths = <<>>
    /\ failedImagePathSet = <<>>
    /\ zip = <<>>
    /\ processedImages = 0
    /\ progressCalls = <<>>
    /\ progressCount = NoProgress
    /\ fetchCount = NoFunction
    /\ questionOutcome = NoFunction
    /\ generated = "none"
    /\ exportResult = Null

\* the call itself: the synchronous part of mapWithConcurrency
MapCall ==
    /\ UNCHANGED <<callVars, rendererVars>>
    /\ pc = "map"
    /\ mapState = "idle"
    /\ Commit(CallMap(Sync, items, limit, "op"))
    /\ mapState' = IF items = <<>> THEN "resolved" ELSE "pending"
    /\ UNCHANGED <<pc, limit, questionIds, failedIds, questions, html, imagePaths, generated,
                   exportResult>>

\* the operation of worker w settles: it returns a value or rejects
OpSettle(w) ==
    /\ UNCHANGED <<callVars, rendererVars>>
    /\ w \in Workers
    /\ wk[w].st = "op"
    /\ \E outcome \in {OpValue(items[wk[w].idx + 1], wk[w].idx), [rejects |-> TRUE]} :
         Commit(Settled(Sync, w, outcome, outcome = [rejects |-> TRUE]))
    /\ UNCHANGED <<pc, limit, mapState, questionIds, failedIds, questions, html, imagePaths,
                   generated, exportResult>>

\* worker w resumes after its await: it stores the value and loops, or the
\* rejection ends it
WorkerResume(w) ==
    /\ UNCHANGED <<callVars, rendererVars>>
    /\ w \in Workers
    /\ wk[w].st \in {"ready", "threw"}
    /\ IF wk[w].st = "threw"
       THEN Commit([Sync EXCEPT !.wk[w] = [st |-> "failed", idx |-> -1, val |-> Null]])
       ELSE Commit(WorkerLoop([Sync EXCEPT !.results[ResultSlot(Sync, w)] = wk[w].val], w))
    /\ UNCHANGED <<pc, limit, mapState, questionIds, failedIds, questions, html, imagePaths,
                   generated, exportResult>>

\* Promise.all over the promises of the workers: rejected as soon as one of
\* them is, fulfilled once all of them are
PromiseAllSettled(workers) ==
    IF \A w \in DOMAIN workers : workers[w].st \in {"done", "failed"} THEN "resolved" ELSE "pending"
PromiseAll(workers) ==
    IF \E w \in DOMAIN workers : workers[w].st = "failed" THEN "rejected"
    ELSE IF \A w \in DOMAIN workers : workers[w].st = "done" THEN "resolved"
    ELSE "pending"

\* await Promise.all(...): rejects with the first worker that fails, resolves
\* once every worker has returned; then return results
MapSettle ==
    /\ UNCHANGED <<callVars, rendererVars>>
    /\ mapState = "pending"
    /\ PromiseAll(wk) # "pending"
    /\ mapState' = PromiseAll(wk)
    /\ UNCHANGED <<pc, mapper, items, limit, nextIndex, results, wk, calls, returned,
                   completionOrder, exportVars, historyVars>>

NextMap ==
    \/ MapCall
    \/ \E w \in Workers : OpSettle(w)
    \/ \E w \in Workers : WorkerResume(w)
    \/ MapSettle

SpecMap == InitMap /\ [][NextMap]_vars

\* A bare call whose operations all settle and whose continuations all run:
\* the event loop runs every queued continuation, and that an operation in
\* flight settles is the hypothesis of the termination claim.
SpecMapFair ==
    /\ InitMap
    /\ [][NextMap]_vars
    /\ WF_vars(MapCall)
    /\ WF_vars(MapSettle)
    /\ \A w \in 1..(MaxLimit + 1) : WF_vars(OpSettle(w)) /\ WF_vars(WorkerResume(w))

----------------------------------------------------------------------------
(* generateExportHTML(questionIds, onProgress) *)

Ids == {"Q1", "Q2"}

\* The src-bearing tags that the stems and rendered answers of a record may
\* hold, in document order: none; one relative image; a relative image used
\* twice, a src on a tag that is no <img>, and an absolute image; an image
\* under images/ of question Q1, with a leading slash, on a tag that is no
\* <img>.
RefLists ==
    { <<>>,
      <<Img(<<"diagram.png">>)>>,
      <<Img(<<"a.svg">>), Img(<<"a.svg">>), Other(<<"v.png">>), Img(<<"https:", "", "cdn", "b.png">>)>>,
      <<Other(<<"", "images", "Q1", "diagram.png">>)>> }

\* a part of the type with no answer payload at all
BlankPart(type) ==
    [n |-> Num(1), type |-> type, stem |-> EmptyHtml, choices |-> Undefined,
     correct_answer |-> Undefined, acceptable_answers |-> Undefined, gap_keys |-> Undefined,
     items |-> Undefined]

\* the records response.json() may yield for the question id: one part, whose
\* stem is a paragraph that holds the tags
Records(id) ==
    {[question_id |-> id, language_code |-> "en", number_of_parts |-> 1,
      content |-> [parts |-> Arr(<<[BlankPart("string") EXCEPT
                                      !.stem = Html(<<"<p", ">", "x", "</p>">>, refs)]>>)]] :
        refs \in RefLists}

Init ==
    /\ call = Null /\ ret = Null
    /\ RendererIdle
    /\ pc = "start"
    /\ questionIds \in SeqsUpTo(Ids, MaxIds)
    /\ mapper = "question"
    /\ items = <<>>
    /\ limit = QUESTION_FETCH_CONCURRENCY
    /\ nextIndex = 0
    /\ results = NoFunction
    /\ wk = <<>>
    /\ mapState = "idle"
    /\ calls = NoFunction
    /\ returned = NoFunction
    /\ completionOrder = <<>>
    /\ processedQuestions = 0
    /\ failedIds = <<>>
    /\ questions = <<>>
    /\ html = <<>>
    /\ imagePaths = <<>>
    /\ failedImagePathSet = <<>>
    /\ zip = <<>>
    /\ processedImages = 0
    /\ progressCalls = <<>>
    /\ progressCount = NoProgress
    /\ fetchCount = NoFunction
    /\ questionOutcome = NoFunction
    /\ generated = "none"
    /\ exportResult = Null

Zeros(n) == [i \in 0..(n - 1) |-> 0]

\* the call, up to the await of the question phase
ExportCall ==
    /\ UNCHANGED <<callVars, rendererVars>>
    /\ pc = "start"
    /\ pc' = "questions"
    /\ Commit(CallMap([Sync EXCEPT !.progressCount.questions = Zeros(Len(questionIds)),
                                    !.questionOutcome = [i \in 0..(Len(questionIds) - 1) |-> Hole]],
                      questionIds, QUESTION_FETCH_CONCURRENCY, "question"))
    /\ limit' = QUESTION_FETCH_CONCURRENCY
    /\ mapState' = IF questionIds = <<>> THEN "resolved" ELSE "pending"
    /\ UNCHANGED <<questionIds, failedIds, questions, html, imagePaths, generated, exportResult>>

\* await fetch(...) of a question settles: a 2xx response, another status, or
\* a transport error
QuestionFetchSettle(w) ==
    /\ UNCHANGED <<callVars, rendererVars>>
    /\ w \in Workers
    /\ mapper = "question"
    /\ wk[w].st = "fetch"
    /\ \E outcome \in {"ok", "status", "error"} :
         IF outcome = "ok"
         THEN Commit([Sync EXCEPT !.wk[w].st = "json"])
         ELSE Commit(QuestionFinally(Sync, w, QuestionFailed(items[wk[w].idx + 1])))
    /\ UNCHANGED <<pc, limit, mapState, questionIds, failedIds, questions, html, imagePaths,
                   generated, exportResult>>

\* await response.json() settles: a record, or a parse error
QuestionJsonSettle(w) ==
    /\ UNCHANGED <<callVars, rendererVars>>
    /\ w \in Workers
    /\ mapper = "question"
    /\ wk[w].st = "json"
    /\ LET id == items[wk[w].idx + 1]
       IN \E end \in {QuestionFailed(id)} \cup {QuestionFetched(id, q) : q \in Records(id)} :
            Commit(QuestionFinally(Sync, w, end))
    /\ UNCHANGED <<pc, limit, mapState, questionIds, failedIds, questions, html, imagePaths,
                   generated, exportResult>>

ToSeq(f, n) == [k \in 1..n |-> f[k - 1]]

\* if (result.question)
IsFetched(result) == result.question # Null

\* the loop over questionResults: questions.push(result.question)
FetchedQuestions(questionResults) ==
    LET kept == SelectSeq(questionResults, IsFetched)
    IN [k \in 1..Len(kept) |-> kept[k].question]

\* the loop over questionResults: failedIds.push(result.id)
FailedIdsInCompletionOrder(questionResults) ==
    LET failed == SelectSeq([k \in 1..Len(completionOrder) |-> questionResults[completionOrder[k] + 1]],
                            LAMBDA r : ~IsFetched(r))
    IN [k \in 1..Len(failed) |-> failed[k].id]
FailedIdsOfEveryResult(questionResults) ==
    [k \in 1..Len(questionResults) |-> questionResults[k].id]
FailedQuestionIds(questionResults) ==
    LET failed == SelectSeq(questionResults, LAMBDA r : ~IsFetched(r))
    IN [k \in 1..Len(failed) |-> failed[k].id]

\* questions.map((q) => generateQuestionHTML(q)).join('\n'), inside the shell
Document(qs) == [k \in 1..Len(qs) |-> generateQuestionHTML(qs[k])]

\* zip.file('Questions_Export.html', html)
AddDocumentIfAnyQuestion(z, doc) == IF doc = <<>> THEN z ELSE ZipFile(z, HTML_ENTRY, "html")
AddDocument(z, doc) == ZipFile(z, HTML_ENTRY, "html")

\* [...new Set(collectImagePaths(html))]
ImagePathsWithRepeats(doc) == collectImagePaths(doc)
ImagePaths(doc) == Dedupe(collectImagePaths(doc))

\* the question phase is over: partition the results, build the document,
\* collect the image paths, start the archive, and either start the image
\* phase or, with no image path, call zip.generateAsync
QuestionsDone ==
    /\ UNCHANGED <<callVars, rendererVars>>
    /\ pc = "questions"
    /\ mapState \in {"resolved", "rejected"}
    /\ IF mapState = "rejected"
       THEN /\ pc' = "rejected"
            /\ exportResult' = [error |-> "mapper"]
            /\ UNCHANGED <<mapVars, questionIds, processedQuestions, failedIds, questions, html,
                           imagePaths, failedImagePathSet, zip, processedImages, generated,
                           historyVars>>
       ELSE LET questionResults == ToSeq(results, Len(items))
                qs == FetchedQuestions(questionResults)
                doc == Document(qs)
                paths == ImagePaths(doc)
                packed == [Sync EXCEPT !.zip = AddDocument(@, doc),
                                       !.progressCount.images = Zeros(Len(paths))]
            IN /\ questions' = qs
               /\ failedIds' = FailedQuestionIds(questionResults)
               /\ html' = doc
               /\ imagePaths' = paths
               /\ exportResult' = exportResult
               /\ questionIds' = questionIds
               /\ IF paths # <<>>
                  THEN /\ Commit(CallMap(packed, paths, IMAGE_FETCH_CONCURRENCY, "image"))
                       /\ limit' = IMAGE_FETCH_CONCURRENCY
                       /\ mapState' = "pending"
                       /\ generated' = generated
                       /\ pc' = "images"
                  ELSE /\ Commit(packed)
                       /\ UNCHANGED <<limit, mapState>>
                       /\ generated' = "pending"
                       /\ pc' = "finalize"

\* await fetch(imageUrl) settles: a 2xx response, another status, or a
\* transport error
ImageFetchSettle(w) ==
    /\ UNCHANGED <<callVars, rendererVars>>
    /\ w \in Workers
    /\ mapper = "image"
    /\ wk[w].st = "fetch"
    /\ \E outcome \in {"ok", "status", "error"} :
         IF outcome = "ok"
         THEN Commit([Sync EXCEPT !.wk[w].st = "blob"])
         ELSE Commit(ImageFinally(ImageFailed(Sync, items[wk[w].idx + 1]), w))
    /\ UNCHANGED <<pc, limit, mapState, questionIds, failedIds, questions, html, imagePaths,
                   generated, exportResult>>

\* await response.blob() settles: the body, which zip.file stores under the
\* path, or an error
ImageBlobSettle(w) ==
    /\ UNCHANGED <<callVars, rendererVars>>
    /\ w \in Workers
    /\ mapper = "image"
    /\ wk[w].st = "blob"
    /\ LET imgPath == items[wk[w].idx + 1]
       IN \E outcome \in {"ok", "error"} :
            IF outcome = "ok"
            THEN Commit(ImageFinally([Sync EXCEPT !.zip = ZipFile(@, imgPath, "blob")], w))
            ELSE Commit(ImageFinally(ImageFailed(Sync, imgPath), w))
    /\ UNCHANGED <<pc, limit, mapState, questionIds, failedIds, questions, html, imagePaths,
                   generated, exportResult>>

\* await mapWithConcurrency(imagePaths, ...): the export goes on once the
\* promise of the image phase has settled
ImagePhaseNotAwaited == TRUE
ImagePhaseAwaited == mapState \in {"resolved", "rejected"}

\* the image phase is over: zip.generateAsync({ type: 'blob' }) is called
ImagesDone ==
    /\ UNCHANGED <<callVars, rendererVars>>
    /\ pc = "images"
    /\ ImagePhaseAwaited
    /\ IF mapState = "rejected"
       THEN pc' = "rejected" /\ exportResult' = [error |-> "mapper"] /\ generated' = generated
       ELSE pc' = "finalize" /\ exportResult' = exportResult /\ generated' = "pending"
    /\ UNCHANGED <<mapVars, questionIds, processedQuestions, failedIds, questions, html,
                   imagePaths, failedImagePathSet, zip, processedImages, historyVars>>

\* zip.generateAsync settles: the archive is packaged, or packaging fails
GenerateSettle ==
    /\ UNCHANGED <<callVars, rendererVars>>
    /\ generated = "pending"
    /\ generated' \in {"fulfilled", "rejected"}
    /\ UNCHANGED <<pc, mapVars, questionIds, processedQuestions, failedIds, questions, html,
                   imagePaths, failedImagePathSet, zip, processedImages, exportResult,
                   historyVars>>

\* return { blob, successCount: questions.length, failedIds, failedImagePaths: [...failedImagePathSet] }
ReturnedResult ==
    [pc |-> "resolved",
     result |-> [blob |-> zip, successCount |-> Len(questions), failedIds |-> failedIds,
                 failedImagePaths |-> failedImagePathSet]]

\* what generateExportHTML does when zip.generateAsync rejects: the await
\* throws and nothing catches it
FinalizeFailureSwallowed ==
    [pc |-> "resolved",
     result |-> [blob |-> <<>>, successCount |-> Len(questions), failedIds |-> failedIds,
                 failedImagePaths |-> Append(failedImagePathSet, HTML_ENTRY)]]
FinalizeFailure == [pc |-> "rejected", result |-> [error |-> "generateAsync"]]

\* generateExportHTML resumes after await zip.generateAsync(...)
ExportReturn ==
    /\ UNCHANGED <<callVars, rendererVars>>
    /\ pc = "finalize"
    /\ generated \in {"fulfilled", "rejected"}
    /\ LET end == IF generated = "fulfilled" THEN ReturnedResult ELSE FinalizeFailure
       IN pc' = end.pc /\ exportResult' = end.result
    /\ UNCHANGED <<mapVars, questionIds, processedQuestions, failedIds, questions, html,
                   imagePaths, failedImagePathSet, zip, processedImages, generated, historyVars>>

Next ==
    \/ ExportCall
    \/ \E w \in Workers : QuestionFetchSettle(w)
    \/ \E w \in Workers : QuestionJsonSettle(w)
    \/ \E w \in Workers : WorkerResume(w)
    \/ MapSettle
    \/ QuestionsDone
    \/ \E w \in Workers : ImageFetchSettle(w)
    \/ \E w \in Workers : ImageBlobSettle(w)
    \/ ImagesDone
    \/ GenerateSettle
    \/ ExportReturn

Spec == Init /\ [][Next]_vars

----------------------------------------------------------------------------
(* Direct calls of the synchronous functions *)

Dirs == {"ltr", "rtl"}

\* The ways an attribute of a paragraph tag may be spelled: a class in double
\* quotes, in single quotes, with white space around "=", holding the theme
\* token alone or after another token, without a value; a dir in either
\* quotes; a data-dir; a title whose value reads class=; an id; a title whose
\* value holds ">".
AttrSpellings ==
    { <<" ", "class", "=", DQ, "x", DQ>>,
      <<" ", "class", "=", SQ, "x", SQ>>,
      <<" ", "class", " ", "=", " ", DQ, "x", DQ>>,
      <<" ", "class", "=", DQ, THEME, DQ>>,
      <<" ", "class", "=", DQ, "x", " ", THEME, DQ>>,
      <<" ", "class">>,
      <<" ", "dir", "=", DQ, "rtl", DQ>>,
      <<" ", "dir", "=", SQ, "ltr", SQ>>,
      <<" ", "data-", "dir", "=", DQ, "x", DQ>>,
      <<" ", "title", "=", DQ, "class", "=", DQ>>,
      <<" ", "id", "=", DQ, "x", DQ>>,
      <<" ", "title", "=", DQ, "x", ">", "x", DQ>> }

\* the attributes of a tag: at most maxAttrs of the spellings, one after another
AttrLists(maxAttrs) == {Flatten(ss) : ss \in SeqsUpTo(AttrSpellings, maxAttrs)}

\* text, a paragraph with the attributes (and perhaps white space before its
\* ">"), then a <pre> and a bare <p>
Fragment(attrs, tail) ==
    <<"x", "<p">> \o attrs \o tail \o <<">", "x", "</p>", "<p", "re", ">", "<p", ">", "x", "</p>">>

Fragments(maxAttrs) == {Fragment(a, t) : a \in AttrLists(maxAttrs), t \in {<<>>, <<" ">>}}

AddLexicalClassCalls(maxAttrs) ==
    {[fn |-> "addLexicalClass", html |-> f, dir |-> d] : f \in Fragments(maxAttrs), d \in Dirs}

\* the labels of the table, other labels, the empty label, and labels that
\* name properties every object inherits
Labels == DOMAIN LABEL_ENTITY_MAP \cup {"G", "1", ""} \cup ObjectPrototypeProperties

GetLabelEntityCalls == {[fn |-> "getLabelEntity", label |-> l] : l \in Labels}

\* src values: relative with an extension in lower and in upper case, in a
\* folder, with a leading slash; absolute with http, https and HTTP; under
\* images/ and under Images/; without an extension, and with a query after it
SrcSamples ==
    { <<"a.svg">>, <<"a.PNG">>, <<"v", "b.jpg">>, <<"", "a.png">>,
      <<"http:", "", "cdn", "b.png">>, <<"https:", "", "cdn", "b.png">>, <<"HTTP:", "", "cdn", "b.png">>,
      <<"images", "Q1", "diagram.png">>, <<"Images", "a.gif">>,
      <<"a.txt">>, <<"a.png?v=1">> }

\* what may stand between the name of a tag and its src: white space; an
\* attribute whose value holds ">", then white space; an attribute and no
\* white space
BeforeSamples ==
    { <<" ">>,
      <<" ", "alt", "=", DQ, "x", ">", "x", DQ, " ">>,
      <<" ", "alt", "=", DQ, "x", DQ>> }

RefSamples ==
    {Ref(t, b, q, src) : t \in {"img", "other"}, b \in BeforeSamples, q \in {DQ, SQ}, src \in SrcSamples}

RewriteImagePathsCalls(maxRefs) ==
    {[fn |-> "rewriteImagePaths", html |-> refs, questionId |-> id] :
        refs \in SeqsUpTo(RefSamples, maxRefs), id \in Ids \cup {"/Q1"}}

\* every path of at most maxSegments segments, each empty, images, a question
\* id, a file name or another word (a string has at least one segment)
PathSegments == {"", "images", "Q1", "a.png", "not"}
ResolveImageUrlCalls(maxSegments) ==
    {[fn |-> "resolveImageUrl", imgPath |-> path] : path \in SeqsUpTo(PathSegments, maxSegments) \ {<<>>}}

\* markup a value may hold: plain text; a paragraph; a paragraph that has a
\* dir and holds an image
PlainValue == Text(<<"x">>)
ParagraphValue == Text(<<"<p", ">", "x", "</p>">>)
ImageValue == Html(<<"<p", " ", "dir", "=", DQ, "ltr", DQ, ">", "x", "</p>">>, <<Img(<<"a.svg">>)>>)

\* the choices an array of choices may hold: a label of the table or not, a
\* value, is_correct true, false or absent; or null in place of a choice
Choices ==
    {[label |-> l, value |-> v, is_correct |-> c] :
        l \in {"U+0628", "G"}, v \in {PlainValue, ImageValue},
        c \in {Bool(TRUE), Bool(FALSE), Undefined}}
ChoiceArrays(maxChoices) == {Arr(cs) : cs \in SeqsUpTo(Choices \cup {Null}, maxChoices)}

ChoiceParts(maxChoices) ==
    {[BlankPart(t) EXCEPT !.choices = cs] :
        t \in {"mcq", "mrq", "opinion"}, cs \in ChoiceArrays(maxChoices) \cup {Undefined}}

\* gap keys: the k-th key of the array has the value gk, and any display and
\* correct order of 1..3, so that orders may repeat
GapKeyArrays(maxGapKeys) ==
    UNION {{Arr([k \in 1..n |-> [value |-> Text(<<"g" \o ToString(k)>>),
                                 display_order |-> d[k], correct_order |-> c[k]]]) :
               d \in [1..n -> 1..3], c \in [1..n -> 1..3]} : n \in 0..maxGapKeys}

GapParts(maxGapKeys) ==
    {[BlankPart("gap") EXCEPT !.gap_keys = ks] :
        ks \in GapKeyArrays(maxGapKeys) \cup {Undefined, Arr(<<Null>>)}}

\* a choice that is correct and one that is not
CorrectChoice == [label |-> "A", value |-> PlainValue, is_correct |-> Bool(TRUE)]
WrongChoice == [label |-> "B", value |-> ImageValue, is_correct |-> Bool(FALSE)]

\* parts of the other types and of a type there is no renderer for: with the
\* payload of the type, with none, and with a payload that lacks a field or
\* holds null in place of an element
OtherParts ==
    {[BlankPart(t) EXCEPT !.acceptable_answers = a] :
        t \in {"string", "frq"},
        a \in {Undefined, Arr(<<>>), Arr(<<ParagraphValue, PlainValue>>), Arr(<<Null>>)}}
    \cup
    {[BlankPart(t) EXCEPT !.correct_answer = ca] :
        t \in {"input", "ordering", "matching", "counting", "puzzle"},
        ca \in {Undefined, Null, Num(3),
                [value |-> Num(3), unit |-> Str("cm")],
                [value |-> Num(3)],
                Arr(<<PlainValue, ImageValue>>),
                Arr(<<[A |-> PlainValue, B |-> ParagraphValue]>>),
                Arr(<<[A |-> PlainValue, B |-> PlainValue], Null>>),
                [src |-> Text(<<"a.png">>), alt |-> Str("x")],
                [src |-> Text(<<"a.png">>)]}}
    \cup
    {[BlankPart("gmrq") EXCEPT !.items = groups] :
        groups \in {Undefined,
                    [A |-> Arr(<<CorrectChoice>>), B |-> Arr(<<WrongChoice, CorrectChoice>>)],
                    [A |-> Arr(<<CorrectChoice>>)],
                    [B |-> Arr(<<WrongChoice>>)],
                    [A |-> Arr(<<Null>>), B |-> Arr(<<>>)]}}
    \cup {BlankPart("essay")}

RenderAnswersCalls(maxChoices, maxGapKeys) ==
    {[fn |-> "renderAnswers", part |-> part, dir |-> d] :
        part \in ChoiceParts(maxChoices) \cup GapParts(maxGapKeys) \cup OtherParts, d \in Dirs}

\* stems: a paragraph that holds an image; a paragraph that has a dir; two
\* paragraphs, the first with a dir; a paragraph with a data-dir; no stem
Stems ==
    { Html(<<"<p", ">", "x", "</p>">>, <<Img(<<"a.svg">>)>>),
      Text(<<"<p", " ", "dir", "=", DQ, "ltr", DQ, ">", "x", "</p>">>),
      Text(<<"<p", " ", "dir", "=", DQ, "rtl", DQ, ">", "x", "</p>", "<p", ">", "y", "</p>">>),
      Text(<<"<p", " ", "data-", "dir", "=", DQ, "x", DQ, ">", "x", "</p>">>),
      Undefined }

\* the parts of a record: of a type with choices, of a type with one answer,
\* of a type with no renderer, and one whose payload lacks a group
QuestionParts ==
    {[part EXCEPT !.stem = stem] :
        stem \in Stems,
        part \in {[BlankPart("mcq") EXCEPT !.choices = Arr(<<CorrectChoice, WrongChoice>>)],
                  [BlankPart("frq") EXCEPT !.acceptable_answers = Arr(<<ParagraphValue>>)],
                  BlankPart("essay"),
                  [BlankPart("gmrq") EXCEPT !.items = [A |-> Arr(<<CorrectChoice>>)]]}}

\* records of one part and of two, in Arabic and in other languages, a record
\* whose array holds part 2 before part 1, and a record with no content
QuestionRecords ==
    {[question_id |-> "Q1", language_code |-> l, number_of_parts |-> Len(ps),
      content |-> [parts |-> Arr(ps)]] :
        l \in {"ar", "en", "fr"},
        ps \in {<<part>> : part \in QuestionParts}
                \cup {<<part, [BlankPart("essay") EXCEPT !.n = Num(2)]>> : part \in QuestionParts}
                \cup {<<[BlankPart("essay") EXCEPT !.n = Num(2)], BlankPart("string")>>}}
    \cup {[question_id |-> "Q1", language_code |-> "en", number_of_parts |-> 1,
           content |-> Undefined]}

GenerateQuestionHTMLCalls ==
    {[fn |-> "generateQuestionHTML", question |-> q] : q \in QuestionRecords}

\* no export and no mapWithConcurrency call is under way
Quiet ==
    /\ mapper = "op" /\ items = <<>> /\ limit = 0 /\ nextIndex = 0
    /\ results = NoFunction /\ wk = <<>> /\ mapState = "idle"
    /\ calls = NoFunction /\ returned = NoFunction /\ completionOrder = <<>>
    /\ questionIds = <<>> /\ processedQuestions = 0 /\ failedIds = <<>>
    /\ questions = <<>> /\ html = <<>> /\ imagePaths = <<>>
    /\ failedImagePathSet = <<>> /\ zip = <<>> /\ processedImages = 0
    /\ progressCalls = <<>> /\ progressCount = NoProgress
    /\ fetchCount = NoFunction /\ questionOutcome = NoFunction
    /\ generated = "none" /\ exportResult = Null

InitCalls ==
    /\ pc = "call"
    /\ call \in AddLexicalClassCalls(MaxAttrs) \cup GetLabelEntityCalls
                    \cup RewriteImagePathsCalls(MaxRefs) \cup ResolveImageUrlCalls(MaxSegments)
                    \cup RenderAnswersCalls(MaxChoices, MaxGapKeys) \cup GenerateQuestionHTMLCalls
    /\ RendererIdle
    /\ ret = Null
    /\ Quiet

Returns(fn, value) ==
    /\ pc = "call"
    /\ call.fn = fn
    /\ ret' = value
    /\ pc' = "returned"
    /\ UNCHANGED <<call, mapVars, exportVars, historyVars, rendererVars>>

CallAddLexicalClass == Returns("addLexicalClass", addLexicalClass(call.html, call.dir))

CallGetLabelEntity == Returns("getLabelEntity", getLabelEntity(call.label))

CallRewriteImagePaths == Returns("rewriteImagePaths", rewriteImagePaths(call.html, call.questionId))

CallResolveImageUrl == Returns("resolveImageUrl", resolveImageUrl(call.imgPath))

\* renderAnswers(part, dir): what it returns, and the gap keys of the part as
\* the call leaves them
CallRenderAnswers ==
    Returns("renderAnswers",
            [html |-> renderAnswers(call.part, call.dir),
             gap_keys |-> IF call.part.type = "gap" /\ IsArray(call.part.gap_keys)
                          THEN GapKeysAfterRender(call.part) ELSE call.part.gap_keys])

CallGenerateQuestionHTML ==
    Returns("generateQuestionHTML", generateQuestionHTML(call.question))

NextCalls ==
    \/ CallAddLexicalClass
    \/ CallGetLabelEntity
    \/ CallRewriteImagePaths
    \/ CallResolveImageUrl
    \/ CallRenderAnswers
    \/ CallGenerateQuestionHTML

SpecCalls == InitCalls /\ [][NextCalls]_vars

Returned(fn) == pc = "returned" /\ call.fn = fn

----------------------------------------------------------------------------
(* QuestionRenderer({ questionId, index, onStatusChange }) *)

ENGINE_ORIGIN == "https://classes-resources.nagwa.com"

\* what the parent holds once onStatusChange(id, s) was called
OnStatusChange(id, s) == (id :> s) @@ reported

\* the body of the first effect: a controller, an iframe that starts to load
\* the engine and has the onload handler, and the call of
\* onStatusChange(questionId, 'loading').  statusChanges and inits are the
\* statuses the effect and its handler passed to onStatusChange and the
\* number of init messages the handler posted; cleanedAt is where the handler
\* was when the effect was cleaned up ("" while it is not)
EffectBody(id) ==
    [questionId |-> id, aborted |-> FALSE, onload |-> TRUE, st |-> "loading",
     statusChanges |-> <<"loading">>, inits |-> 0, cleanedAt |-> ""]

\* the cleanup of the first effect, of its last run: controller.abort(),
\* iframe.onload = null, iframe.remove(), iframeRef.current = null
Cleanup(effs) ==
    [k \in DOMAIN effs |->
        IF k = Len(effs)
        THEN [effs[k] EXCEPT !.aborted = TRUE, !.onload = FALSE, !.cleanedAt = effs[k].st]
        ELSE effs[k]]

InitRenderer ==
    /\ call = Null /\ ret = Null
    /\ Quiet
    /\ pc = "render"
    /\ props \in {[questionId |-> id] : id \in Ids}
    /\ status = "loading" /\ error = Null /\ height = 250
    /\ iframeRef = 0 /\ effects = <<>> /\ reported = NoFunction

\* the effects run with the props of the render: setError(null),
\* setStatus('loading'), onStatusChange(questionId, 'loading'), the new iframe
RunEffects(id) ==
    /\ props' = [questionId |-> id]
    /\ error' = Null
    /\ status' = "loading"
    /\ reported' = OnStatusChange(id, "loading")
    /\ effects' = Append(Cleanup(effects), EffectBody(id))
    /\ iframeRef' = Len(effects) + 1
    /\ UNCHANGED <<height, mapVars, exportVars, historyVars, callVars>>

\* the component is mounted: its effects run for the first time
Mount ==
    /\ pc = "render"
    /\ pc' = "mounted"
    /\ RunEffects(props.questionId)

\* a render with another questionId or another onStatusChange: the cleanups
\* run, then the effects
Rerender ==
    /\ pc = "mounted"
    /\ Len(effects) < MaxEffects
    /\ pc' = pc
    /\ \E id \in Ids : RunEffects(id)

\* the component is unmounted: the cleanups run
Unmount ==
    /\ pc = "mounted"
    /\ pc' = "unmounted"
    /\ effects' = Cleanup(effects)
    /\ iframeRef' = 0
    /\ UNCHANGED <<props, status, error, height, reported, mapVars, exportVars, historyVars,
                   callVars>>

\* the load event of the iframe of effect e: the handler, if the iframe still
\* has it, calls fetch(`${basePath}/${questionId}.json`, { signal })
IframeLoad(e) ==
    /\ e \in DOMAIN effects
    /\ effects[e].onload /\ effects[e].st = "loading"
    /\ effects' = [effects EXCEPT ![e].st = "fetch"]
    /\ UNCHANGED <<pc, props, status, error, height, iframeRef, reported, mapVars, exportVars,
                   historyVars, callVars>>

\* controller.signal.aborted, as the handler of the effect reads it
AbortedNever(effect) == FALSE
Aborted(effect) == effect.aborted

\* the handler of effect e ends: silently (s is ""), or with setError(err),
\* setStatus(s) and onStatusChange(questionId, s), after init posted messages
HandlerEnds(e, s, err, init) ==
    /\ effects' = [effects EXCEPT ![e].st = "done",
                                  ![e].statusChanges = IF s = "" THEN @ ELSE Append(@, s),
                                  ![e].inits = @ + init]
    /\ status' = IF s = "" THEN status ELSE s
    /\ error' = IF s = "error" THEN err ELSE error
    /\ reported' = IF s = "" THEN reported ELSE OnStatusChange(effects[e].questionId, s)
    /\ UNCHANGED <<pc, props, height, iframeRef, mapVars, exportVars, historyVars, callVars>>

\* the catch block of the handler
Caught(e, err) ==
    IF Aborted(effects[e]) THEN HandlerEnds(e, "", Null, 0) ELSE HandlerEnds(e, "error", err, 0)

\* await fetch(...) settles: a 2xx response, another status, or a rejection
\* (the AbortError of an aborted fetch, or a transport error); a response that
\* arrived before the abort is still delivered
FetchSettle(e) ==
    /\ e \in DOMAIN effects
    /\ effects[e].st = "fetch"
    /\ \E outcome \in {"ok", "status", "error"} :
         CASE outcome = "ok" ->
                /\ effects' = [effects EXCEPT ![e].st = "json"]
                /\ UNCHANGED <<pc, props, status, error, height, iframeRef, reported, mapVars,
                               exportVars, historyVars, callVars>>
           [] outcome = "status" -> Caught(e, Str("HTTP 404"))
           [] outcome = "error" -> Caught(e, Str("Failed to fetch"))

\* await resp.json() settles: with the record, and then unless aborted the
\* init message is posted and 'loaded' is set and reported; or with an error
JsonSettle(e) ==
    /\ e \in DOMAIN effects
    /\ effects[e].st = "json"
    /\ \E outcome \in {"ok", "error"} :
         IF outcome = "ok"
         THEN IF Aborted(effects[e]) THEN HandlerEnds(e, "", Null, 0)
              ELSE HandlerEnds(e, "loaded", Null, 1)
         ELSE Caught(e, Str("Unexpected token"))

\* the message events the window may get: from the window of the iframe of an
\* effect or from another window (0), of the engine origin or another, with
\* data that parseMessageData turns into null or into an object
MessageEvents ==
    [source : 0..MaxEffects, origin : {ENGINE_ORIGIN, "https://other.example"},
     data : {Null} \cup [messageKey : {"questionRendered", "questionHeightChanged", "other"},
                         questionId : {""} \cup Ids,
                         questionHeight : {0, 300}]]

\* handleMessage(event), of the listener that the second effect added with the
\* questionId of the props
handleMessage(event) ==
    /\ pc = "mounted"
    /\ IF \/ iframeRef = 0
          \/ event.source # iframeRef
          \/ event.origin # ENGINE_ORIGIN
          \/ event.data = Null
       THEN UNCHANGED <<height, status, reported>>
       ELSE IF \/ event.data.messageKey \notin {"questionRendered", "questionHeightChanged"}
               \/ event.data.questionId \notin {"", props.questionId}
       THEN UNCHANGED <<height, status, reported>>
       ELSE /\ height' = IF event.data.questionHeight > 0 THEN event.data.questionHeight ELSE height
            /\ IF event.data.messageKey = "questionRendered"
               THEN /\ status' = IF status = "error" THEN status ELSE "loaded"
                    /\ reported' = OnStatusChange(props.questionId, "loaded")
               ELSE UNCHANGED <<status, reported>>
    /\ UNCHANGED <<pc, props, error, iframeRef, effects, mapVars, exportVars, historyVars,
                   callVars>>

NextRenderer ==
    \/ Mount
    \/ Rerender
    \/ Unmount
    \/ \E e \in 1..MaxEffects : IframeLoad(e)
    \/ \E e \in 1..MaxEffects : FetchSettle(e)
    \/ \E e \in 1..MaxEffects : JsonSettle(e)
    \/ \E event \in MessageEvents : handleMessage(event)

SpecRenderer == InitRenderer /\ [][NextRenderer]_vars

\* PROPERTIES
----------------------------------------------------------------------------
(* Properties of mapWithConcurrency *)

Indices == 0..(Len(items) - 1)
SomeOpRejected == \E i \in DOMAIN returned : returned[i] = [rejects |-> TRUE]

\* C1: when a bare mapWithConcurrency call has resolved, every results[i] is
\* the value that the operation invoked for items[i] returned, whatever the
\* limit and the order in which the operations completed.
C1_ResultOrder ==
    (pc = "map" /\ mapState = "resolved") =>
        /\ DOMAIN results = Indices
        /\ \A i \in Indices : results[i] = returned[i] /\ results[i] = OpValue(items[i + 1], i)

\* C1 witness: a resolved call with two workers whose operations completed in
\* the reverse of the input order.
C1_Witness ==
    /\ pc = "map" /\ mapState = "resolved"
    /\ Len(items) = 2 /\ limit >= 2
    /\ completionOrder = <<1, 0>>
    /\ items[1] # items[2]

\* C2: for limit >= 1 and non-empty items, the number of operations started
\* and not yet completed never exceeds min(limit, items.length).
C2_InFlightBound ==
    (pc = "map" /\ limit >= 1 /\ items # <<>>) =>
        Cardinality(InFlight) <= Min(limit, Len(items))

\* C2 witness: the ceiling is reached with more items than the limit and an
\* item still unclaimed.
C2_Witness ==
    /\ pc = "map" /\ limit = 2 /\ Len(items) = 3
    /\ Cardinality(InFlight) = 2
    /\ nextIndex = 2

\* C3: unless some operation rejects, a bare call eventually resolves with
\* exactly items.length results, every slot written; and a call with no items
\* is resolved to the empty sequence by the call itself, with no worker and no
\* operation started.
C3_Terminates ==
    /\ <>(SomeOpRejected \/ (/\ mapState = "resolved"
                             /\ DOMAIN results = Indices
                             /\ \A i \in Indices : results[i] # Hole))
    /\ []((items = <<>> /\ mapState # "idle") =>
            (mapState = "resolved" /\ results = NoFunction /\ wk = <<>> /\ calls = NoFunction))

\* C3 witness: a call with the most items, run by a single worker, has
\* resolved with every slot written.
C3_Witness ==
    /\ pc = "map" /\ mapState = "resolved"
    /\ Len(items) = MaxItems /\ limit = 1
    /\ \A i \in Indices : results[i] = OpValue(items[i + 1], i)

----------------------------------------------------------------------------
(* Properties of generateExportHTML *)

Positions == 1..Len(questionIds)
FetchedAt(k) == questionOutcome[k - 1] # Hole /\ IsFetched(questionOutcome[k - 1])
RenderedIds == {html[k].questionid : k \in 1..Len(html)}
BlockIds == [k \in 1..Len(html) |-> html[k].questionid]
ArchiveNames(z) == [k \in 1..Len(z) |-> z[k].name]
EntriesNamed(z, name) == Cardinality({k \in 1..Len(z) : z[k].name = name})
InArchive(z, p) == \E k \in 1..Len(z) : z[k].name = p
ExportSettled == pc \in {"resolved", "rejected"}

\* C4, as claimed: for every input id sequence, duplicates included, failedIds
\* and the ids of the rendered questions are disjoint and their union is the
\* set of input ids.
C4_Claimed ==
    pc = "resolved" =>
        /\ ToSet(exportResult.failedIds) \cap RenderedIds = {}
        /\ ToSet(exportResult.failedIds) \cup RenderedIds = ToSet(questionIds)

\* C4, amended: the union of failedIds and the rendered ids is the set of
\* input ids for every input sequence, and the two are disjoint when the input
\* sequence holds no id twice.
C4_Partition ==
    pc = "resolved" =>
        /\ ToSet(exportResult.failedIds) \cup RenderedIds = ToSet(questionIds)
        /\ NoDuplicates(questionIds) =>
             ToSet(exportResult.failedIds) \cap RenderedIds = {}

\* C4 witness: an export of two different ids has completed with one of them
\* failed and the other rendered.
C4_Witness ==
    /\ pc = "resolved"
    /\ Len(questionIds) = 2 /\ NoDuplicates(questionIds)
    /\ Len(exportResult.failedIds) = 1 /\ Len(html) = 1

PhaseCalls(phase) == SelectSeq(progressCalls, LAMBDA c : c.phase = phase)
QuestionPhaseOver == pc \notin {"start", "questions"}
ImagePhaseOver == pc = "finalize" \/ (ExportSettled /\ generated # "none")

\* C6: in each phase the k-th onProgress call reports completed = k and total
\* = the number of items of the phase; no item causes more than one call, an
\* item whose closure has ended has caused exactly one, and so has every item
\* once the phase is over.
C6_Progress ==
    /\ \A k \in 1..Len(PhaseCalls("questions")) :
         PhaseCalls("questions")[k] = [completed |-> k, total |-> Len(questionIds), phase |-> "questions"]
    /\ \A k \in 1..Len(PhaseCalls("images")) :
         PhaseCalls("images")[k] = [completed |-> k, total |-> Len(imagePaths), phase |-> "images"]
    /\ \A i \in DOMAIN progressCount.questions :
         progressCount.questions[i] = (IF questionOutcome[i] # Hole THEN 1 ELSE 0)
    /\ \A i \in DOMAIN progressCount.images :
         /\ progressCount.images[i] <= 1
         /\ (mapper = "image" /\ returned[i] # Hole) => progressCount.images[i] = 1
    /\ QuestionPhaseOver =>
         /\ DOMAIN progressCount.questions = 0..(Len(questionIds) - 1)
         /\ \A i \in DOMAIN progressCount.questions : progressCount.questions[i] = 1
    /\ ImagePhaseOver =>
         /\ DOMAIN progressCount.images = 0..(Len(imagePaths) - 1)
         /\ \A i \in DOMAIN progressCount.images : progressCount.images[i] = 1

\* C6 witness: both phases are over, the second question completed first, and
\* the image phase reported an unresolvable path, a failed image and a stored
\* image.
C6_Witness ==
    /\ pc = "finalize"
    /\ completionOrder = <<1, 0>>
    /\ Len(PhaseCalls("images")) >= 3
    /\ \E p \in ToSet(failedImagePathSet) : resolveImageUrl(p) = Null
    /\ \E p \in ToSet(failedImagePathSet) : resolveImageUrl(p) # Null
    /\ Len(zip) >= 2

C8_ImagePartition ==
    pc = "resolved" =>
        /\ \A p \in ToSet(imagePaths) :
             InArchive(exportResult.blob, p) # (p \in ToSet(exportResult.failedImagePaths))
        /\ ToSet(exportResult.failedImagePaths) \subseteq ToSet(imagePaths)
        /\ \A p \in ToSet(imagePaths) :
             resolveImageUrl(p) = Null => p \in ToSet(exportResult.failedImagePaths)
        /\ ToSet(ArchiveNames(exportResult.blob)) \subseteq {HTML_ENTRY} \cup ToSet(imagePaths)

\* C8 witness: a completed export with a stored image and a fetched image
\* that failed.
C8_Witness ==
    /\ pc = "resolved"
    /\ \E p \in ToSet(imagePaths) : InArchive(exportResult.blob, p)
    /\ \E p \in ToSet(exportResult.failedImagePaths) : resolveImageUrl(p) # Null

AllFetched == \A k \in Positions : FetchedAt(k)
NoImageReferenced ==
    \A k \in 1..Len(questions) :
        \A n \in 1..Len(questions[k].content.parts.arr) :
            questions[k].content.parts.arr[n].stem.refs = <<>>

\* C9: the archive of a completed export holds the entry Questions_Export.html
\* exactly once, also when every question fetch failed; when every fetch
\* succeeded and no question references an image, successCount is the number
\* of input ids, both failure lists are empty and the document is the only
\* entry.
C9_DocumentEntry ==
    pc = "resolved" =>
        /\ EntriesNamed(exportResult.blob, HTML_ENTRY) = 1
        /\ (AllFetched /\ NoImageReferenced) =>
             /\ exportResult.successCount = Len(questionIds)
             /\ exportResult.failedIds = <<>>
             /\ exportResult.failedImagePaths = <<>>
             /\ ArchiveNames(exportResult.blob) = <<HTML_ENTRY>>

\* C9 witness: a completed export of two ids whose fetches all failed.
C9_Witness ==
    /\ pc = "resolved"
    /\ Len(questionIds) = 2
    /\ Len(exportResult.failedIds) = 2
    /\ InArchive(exportResult.blob, HTML_ENTRY)

\* C10: when zip.generateAsync has rejected, generateExportHTML rejects with
\* that error: it returns no ExportResult, and the failure lists are what they
\* were.
C10_FinalizeFailurePropagates ==
    (ExportSettled /\ generated = "rejected") =>
        /\ pc = "rejected"
        /\ exportResult = [error |-> "generateAsync"]
        /\ HTML_ENTRY \notin ToSet(failedImagePathSet)

\* C10 witness: the export has rejected after both phases ran and an image
\* was stored.
C10_Witness ==
    /\ pc = "rejected" /\ generated = "rejected"
    /\ \E p \in ToSet(imagePaths) : InArchive(zip, p)
    /\ failedIds # <<>>

----------------------------------------------------------------------------
(* Properties of the synchronous functions *)

OtherDir(d) == IF d = "ltr" THEN "rtl" ELSE "ltr"

\* C12: addLexicalClass is idempotent: applied to its own output with the
\* same direction, or with the other direction, it returns that output
\* unchanged.
C12_Idempotent ==
    Returned("addLexicalClass") =>
        /\ addLexicalClass(ret, call.dir) = ret
        /\ addLexicalClass(ret, OtherDir(call.dir)) = ret

\* C13: getLabelEntity returns a string for every label string, and the
\* label itself for every label that is no key of the table, the names of
\* inherited object properties included.
C13_Passthrough ==
    Returned("getLabelEntity") =>
        /\ DOMAIN ret = {"str"}
        /\ call.label \notin DOMAIN LABEL_ENTITY_MAP => ret = Str(call.label)

EndsInExtension(src) ==
    \E stem \in FileStems, ext \in ImageExtensions :
        src[Len(src)] \in {stem \o "." \o ext, stem \o "." \o UpperCase(ext)}
StartsWithHttp(src) == Len(src) >= 3 /\ src[1] \in {"http:", "https:"} /\ src[2] = ""
UnderImages(src) == Len(src) >= 2 /\ src[1] = "images"
Rewritable(ref) ==
    ref.tag = "img" /\ EndsInExtension(ref.src) /\ ~StartsWithHttp(ref.src) /\ ~UnderImages(ref.src)
Rewritten(ref, q) == [ref EXCEPT !.src = <<"images">> \o IdSegments(q) \o @]
EditorShaped(ref) ==
    /\ ref.quote = DQ
    /\ ">" \notin ToSet(ref.before)
    /\ ref.before # <<>> /\ ref.before[Len(ref.before)] = " "

Conforms(segs) ==
    Len(segs) >= 3 /\ segs[1] = "images" /\ segs[2] # "" /\ SubSeq(segs, 3, Len(segs)) # <<"">>
UrlOf(segs) == [url |-> <<"", "api", "questions", segs[2]>> \o SubSeq(segs, 3, Len(segs))]

\* the path without its leading slashes: without its leading empty segments,
\* but for the last segment
AfterLeadingSlashes(path) ==
    LET k == CHOOSE j \in 1..Len(path) :
                 /\ \A m \in 1..(j - 1) : path[m] = ""
                 /\ j = Len(path) \/ path[j] # ""
    IN SubSeq(path, k, Len(path))

\* C15, as claimed: resolveImageUrl returns null for every path that has
\* fewer than 3 segments, whose first segment is not images, or whose
\* question id or file name is empty, and for every other path the URL made
\* of the asset base, the question id and the file name.
C15_Claimed ==
    Returned("resolveImageUrl") =>
        ret = (IF Conforms(call.imgPath) THEN UrlOf(call.imgPath) ELSE Null)

\* C15, amended: the same, of the segments that remain once the leading
\* slashes of the path are removed.
C15_Resolve ==
    Returned("resolveImageUrl") =>
        ret = (IF Conforms(AfterLeadingSlashes(call.imgPath))
               THEN UrlOf(AfterLeadingSlashes(call.imgPath)) ELSE Null)

\* C15 witness: a path with two leading slashes was resolved.
C15_Witness ==
    /\ Returned("resolveImageUrl")
    /\ call.imgPath = <<"", "", "images", "Q1", "a.png">>
    /\ ret = [url |-> <<"", "api", "questions", "Q1", "a.png">>]

Rendered(type) == Returned("renderAnswers") /\ call.part.type = type

\* the items of the list that a call of renderAnswers returned
Items == IF ret.html = <<>> THEN <<>> ELSE ret.html[1].items

\* the array position of the gap key whose value the k-th item shows
GapKeyShownAt(k) ==
    CHOOSE i \in 1..Len(call.part.gap_keys.arr) :
        Items[k].html = wrapChoiceValue(call.part.gap_keys.arr[i].value, call.dir).html

\* key i goes before key j: it has the smaller correct_order, or the same and
\* the earlier place in the array
GoesBefore(i, j) ==
    LET keys == call.part.gap_keys.arr
    IN \/ keys[i].correct_order < keys[j].correct_order
       \/ keys[i].correct_order = keys[j].correct_order /\ i < j

\* C16: for a gap part with n keys, renderGapAnswer returns n items numbered
\* 1..n, each showing one key, in ascending order of correct_order whatever
\* the display_order and the array order; keys of equal correct_order keep
\* their array order; and the gap_keys array of the part is left as it was.
C16_GapOrder ==
    (Rendered("gap") /\ IsArray(call.part.gap_keys) /\ Null \notin ToSet(call.part.gap_keys.arr)
       /\ call.part.gap_keys.arr # <<>>) =>
        /\ Len(ret.html) = 1 /\ ret.html[1].node = "ul"
        /\ Len(Items) = Len(call.part.gap_keys.arr)
        /\ \A k \in 1..Len(Items) :
             /\ Items[k].label = <<ToString(k)>>
             /\ Items[k].labelClass = <<"answered", "correct">>
             /\ \E i \in 1..Len(Items) :
                  Items[k].html = wrapChoiceValue(call.part.gap_keys.arr[i].value, call.dir).html
        /\ \A j, k \in 1..Len(Items) : j < k => GoesBefore(GapKeyShownAt(j), GapKeyShownAt(k))
        /\ ret.gap_keys = call.part.gap_keys

\* C16 witness: three keys with display orders 2, 1, 3 and correct orders 2,
\* 1, 2 were rendered: the second key is shown first, the first and the third
\* keep their order.
C16_Witness ==
    /\ Rendered("gap") /\ IsArray(call.part.gap_keys) /\ Len(call.part.gap_keys.arr) = 3
    /\ Null \notin ToSet(call.part.gap_keys.arr)
    /\ [k \in 1..3 |-> call.part.gap_keys.arr[k].display_order] = <<2, 1, 3>>
    /\ [k \in 1..3 |-> call.part.gap_keys.arr[k].correct_order] = <<2, 1, 2>>
    /\ [k \in 1..3 |-> GapKeyShownAt(k)] = <<2, 1, 3>>

\* the part with the is_correct of its k-th choice set to flags[k]
WithFlags(part, flags) ==
    [part EXCEPT !.choices =
        Arr([k \in 1..Len(part.choices.arr) |->
                IF part.choices.arr[k] = Null THEN Null
                ELSE [part.choices.arr[k] EXCEPT !.is_correct = flags[k]]])]

Flags == {Bool(TRUE), Bool(FALSE), Undefined}

\* C17: what renderOpinionAnswer returns does not depend on the is_correct
\* flags: every part that differs from the rendered one only in them renders
\* to the same fragment, and in it every choice carries the class not_active
\* and no other.
C17_OpinionNeutral ==
    (Rendered("opinion") /\ IsArray(call.part.choices)) =>
        /\ \A flags \in [1..Len(call.part.choices.arr) -> Flags] :
             renderOpinionAnswer(WithFlags(call.part, flags), call.dir) = ret.html
        /\ ret.html # Raised =>
             \A k \in 1..Len(Items) : Items[k].labelClass = <<"not_active">>

\* C17 witness: an opinion part with two choices, one flagged correct, was
\* rendered to two items.
C17_Witness ==
    /\ Rendered("opinion") /\ IsArray(call.part.choices) /\ Len(call.part.choices.arr) = 2
    /\ Null \notin ToSet(call.part.choices.arr)
    /\ call.part.choices.arr[1].is_correct = Bool(TRUE)
    /\ call.part.choices.arr[2].is_correct = Bool(FALSE)
    /\ Len(Items) = 2

\* C18: for an mcq or mrq part with n choices, renderMCQAnswer returns n
\* items in the order of the choices array, each with the label and the value
\* of its choice; the item of a choice carries the classes answered and
\* correct if and only if the is_correct of the choice is truthy.
C18_ChoiceItems ==
    ((Rendered("mcq") \/ Rendered("mrq")) /\ IsArray(call.part.choices)
       /\ Null \notin ToSet(call.part.choices.arr)) =>
        /\ Len(Items) = Len(call.part.choices.arr)
        /\ \A k \in 1..Len(Items) :
             LET choice == call.part.choices.arr[k]
             IN /\ Items[k].html = wrapChoiceValue(choice.value, call.dir).html
                /\ Items[k].label = <<IF choice.label = "U+0628" THEN "&#x628;" ELSE choice.label>>
                /\ "not_active" \in ToSet(Items[k].labelClass)
                /\ ({"answered", "correct"} \subseteq ToSet(Items[k].labelClass))
                       <=> ~Falsy(choice.is_correct)

\* C18 witness: an mrq part whose first choice is incorrect and whose second
\* is correct was rendered to two items with different values.
C18_Witness ==
    /\ Rendered("mrq") /\ IsArray(call.part.choices) /\ Len(call.part.choices.arr) = 2
    /\ Null \notin ToSet(call.part.choices.arr)
    /\ call.part.choices.arr[1].is_correct = Bool(FALSE)
    /\ call.part.choices.arr[2].is_correct = Bool(TRUE)
    /\ call.part.choices.arr[1].value # call.part.choices.arr[2].value
    /\ Len(Items) = 2

\* C11 (as claimed): renderAnswers and generateQuestionHTML return markup
\* and never throw, whatever the payload of a part holds or lacks.
C11_NeverRaises ==
    /\ Returned("renderAnswers") => ret.html # Raised
    /\ Returned("generateQuestionHTML") => ret # Threw

\* the direction that the language of the record asks for
Expected == IF call.question.language_code = "ar" THEN "rtl" ELSE "ltr"

\* the attributes of the paragraph tags of a text, in order
RECURSIVE ParagraphTagsFrom(_, _)
ParagraphTagsFrom(text, i) ==
    IF i >= Len(text) THEN <<>>
    ELSE IF text[i] = "<p" /\ text[i + 1] \in {" ", ">"} /\ IndexFrom(text, ">", i + 1) # 0
    THEN <<SubSeq(text, i + 1, IndexFrom(text, ">", i + 1) - 1)>>
             \o ParagraphTagsFrom(text, IndexFrom(text, ">", i + 1) + 1)
    ELSE ParagraphTagsFrom(text, i + 1)
ParagraphTags(text) == ParagraphTagsFrom(text, 1)

\* the value of the dir attribute of a tag ("" when it has none): the first
\* attribute of the name dir that holds ltr or rtl
OwnDir(attrs) ==
    LET at == {k \in 2..Len(attrs) - 3 :
                 /\ attrs[k] = "dir" /\ IsSpace(attrs[k - 1]) /\ attrs[k + 1] = "="
                 /\ attrs[k + 2] \in {DQ, SQ} /\ attrs[k + 3] \in Dirs}
    IN IF at = {} THEN "" ELSE attrs[(CHOOSE k \in at : \A j \in at : k <= j) + 3]

\* the direction of a tag: its own dir attribute, or else that of the element
\* it is in
Direction(attrs, container) == IF OwnDir(attrs) = "" THEN container ELSE OwnDir(attrs)

\* the direction of the block: .dir-rtl and .dir-ltr set it in the style sheet
BlockDir(block) ==
    IF block.dirClass = "dir-rtl" THEN "rtl" ELSE IF block.dirClass = "dir-ltr" THEN "ltr" ELSE ""

\* the element a rendered item puts its paragraphs in: its .choice-value
\* container if it has one, the block if not
ContainerDir(item, block) == IF "dir" \in DOMAIN item THEN item.dir ELSE BlockDir(block)

\* the items of all the rendered answers of a block
BlockItems(block) ==
    UNION {UNION {ToSet(block.parts[n].answers[k].items) : k \in 1..Len(block.parts[n].answers)} :
              n \in 1..Len(block.parts)}

ContainerDirs(block) == {item.dir : item \in {it \in BlockItems(block) : "dir" \in DOMAIN it}}

\* the directions of all the paragraphs of a block
ParagraphDirs(block) ==
    {Direction(attrs, BlockDir(block)) :
        attrs \in ToSet(ParagraphTags(block.title))
                    \cup UNION {ToSet(ParagraphTags(block.parts[n].partLabel \o block.parts[n].stem.text)) :
                                   n \in 1..Len(block.parts)}}
    \cup UNION {{Direction(attrs, ContainerDir(item, block)) :
                    attrs \in ToSet(ParagraphTags(item.html.text))} : item \in BlockItems(block)}

\* C19 (as claimed): the block of a record, every choice container and every
\* paragraph in it have the direction of the language of the record.
C19_Claimed ==
    (Returned("generateQuestionHTML") /\ ret # Threw) =>
        /\ BlockDir(ret) = Expected
        /\ ContainerDirs(ret) \subseteq {Expected}
        /\ ParagraphDirs(ret) \subseteq {Expected}

\* the paragraphs of the rendered text are those of the markup it was made
\* from, or one new paragraph around markup that has none; a paragraph that
\* had a dir attribute keeps it, and every other has the expected direction
DirectionsKept(source, rendered, container) ==
    LET was == ParagraphTags(source)
        is == ParagraphTags(rendered)
    IN IF was = <<>> THEN \A k \in 1..Len(is) : Direction(is[k], container) = Expected
       ELSE /\ Len(is) = Len(was)
            /\ \A k \in 1..Len(is) :
                 Direction(is[k], container) =
                     IF OwnDir(was[k]) = "" THEN Expected ELSE OwnDir(was[k])

\* the markup of the record that the i-th item of the answer of a part shows
SourceOfItem(part, i) ==
    CASE part.type = "mcq" -> ToHtml(part.choices.arr[i].value).text
      [] part.type = "frq" -> ToHtml(part.acceptable_answers.arr[1]).text
      [] OTHER -> <<>>

\* C19: the block of a record and every choice container in it have the
\* direction of the language of the record, rtl for "ar" and ltr for any
\* other; a paragraph of a stem or of an answer that has a dir attribute in
\* the record keeps that attribute, and every other paragraph of the block
\* has the direction of the language.
C19_Direction ==
    (Returned("generateQuestionHTML") /\ ret # Threw) =>
        /\ BlockDir(ret) = Expected
        /\ ContainerDirs(ret) \subseteq {Expected}
        /\ DirectionsKept(<<>>, ret.title, BlockDir(ret))
        /\ \A n \in 1..Len(ret.parts) :
             LET part == call.question.content.parts.arr[n]
                 out == ret.parts[n]
             IN /\ DirectionsKept(<<>>, out.partLabel, BlockDir(ret))
                /\ DirectionsKept(part.stem.text, out.stem.text, BlockDir(ret))
                /\ \A k \in 1..Len(out.answers) : \A i \in 1..Len(out.answers[k].items) :
                     DirectionsKept(SourceOfItem(part, i), out.answers[k].items[i].html.text,
                                    ContainerDir(out.answers[k].items[i], ret))

\* C19 witness: the block of an Arabic record was rendered right-to-left with
\* a choice container, and the paragraph of its stem that had dir="ltr" in
\* the record is still left-to-right.
C19_Witness ==
    /\ Returned("generateQuestionHTML") /\ ret # Threw
    /\ call.question.language_code = "ar"
    /\ BlockDir(ret) = "rtl"
    /\ ContainerDirs(ret) = {"rtl"}
    /\ OwnDir(ParagraphTags(call.question.content.parts.arr[1].stem.text)[1]) = "ltr"
    /\ OwnDir(ParagraphTags(ret.parts[1].stem.text)[1]) = "ltr"

----------------------------------------------------------------------------
(* Properties of the cursor of mapWithConcurrency *)

\* the workers that hold an index: their operation is in flight or has
\* settled and they have not resumed
Holding == {w \in Workers : wk[w].st \in {"op", "ready", "threw"}}

\* no worker has anything left to do
AllWorkersEnded == \A w \in Workers : wk[w].st \in {"done", "failed"}

----------------------------------------------------------------------------
(* Properties of the phases of generateExportHTML *)

\* the URL the question closure fetches for an id
QuestionUrl(id) == BASE_URL \o <<id, id \o ".json">>

\* the URLs of the fetches that were not of a question record
ImageFetches == DOMAIN fetchCount \ {QuestionUrl(id) : id \in Ids}

\* every question fetch attempt has completed
QuestionAttemptsOver ==
    /\ processedQuestions = Len(questionIds)
    /\ DOMAIN questionOutcome = 0..(Len(questionIds) - 1)
    /\ \A i \in DOMAIN questionOutcome : questionOutcome[i] # Hole

\* C21: in every run of generateExportHTML every onProgress call of phase
\* "questions" comes before every call of phase "images"; no image fetch
\* starts before every question fetch attempt has completed; and no onProgress
\* call is made once the returned promise has settled, by when every item of
\* both phases has been reported.
C21_PhaseOrder ==
    /\ [](\A j, k \in 1..Len(progressCalls) :
            (progressCalls[j].phase = "images" /\ progressCalls[k].phase = "questions") => k < j)
    /\ [](ImageFetches # {} => QuestionAttemptsOver)
    /\ []((\E k \in 1..Len(progressCalls) : progressCalls[k].phase = "images")
            => QuestionAttemptsOver)
    /\ [](pc = "resolved" => Len(progressCalls) = Len(questionIds) + Len(imagePaths))
    /\ [][(pc \in {"resolved", "rejected"}) => (progressCalls' = progressCalls)]_vars

\* C21 witness: an export has resolved after onProgress calls of both phases
\* and a fetch of an image.
C21_Witness ==
    /\ pc = "resolved"
    /\ ImageFetches # {}
    /\ \E j, k \in 1..Len(progressCalls) :
         progressCalls[j].phase = "questions" /\ progressCalls[k].phase = "images"

\* the image path has no remote URL: without its leading slashes it is not
\* images/<questionId>/<filename>
Unresolvable(p) == ~Conforms(AfterLeadingSlashes(p))

\* the positions of imagePaths whose path resolves to the URL
PathsOfUrl(u) ==
    {k \in 1..Len(imagePaths) :
        ~Unresolvable(imagePaths[k]) /\ UrlOf(AfterLeadingSlashes(imagePaths[k])).url = u}

\* the image closure was invoked for the k-th path
ImageInvoked(k) == mapper = "image" /\ (k - 1) \in DOMAIN calls /\ calls[k - 1] = 1

\* C22: for an image path that has no remote URL the export issues no fetch
\* (every image fetch is of the URL of a path that has one, once per such
\* path), never adds an archive entry of that name, and from the moment the
\* closure is invoked for it has the path among the failed image paths and
\* has made exactly one "images" onProgress call for it; the result of the
\* export lists it in failedImagePaths.
C22_Unresolvable ==
    /\ \A u \in ImageFetches : fetchCount[u] <= Cardinality(PathsOfUrl(u))
    /\ \A k \in 1..Len(imagePaths) :
         Unresolvable(imagePaths[k]) =>
            /\ ~InArchive(zip, imagePaths[k])
            /\ ImageInvoked(k) =>
                 /\ imagePaths[k] \in ToSet(failedImagePathSet)
                 /\ progressCount.images[k - 1] = 1
            /\ pc = "resolved" =>
                 /\ ImageInvoked(k)
                 /\ imagePaths[k] \in ToSet(exportResult.failedImagePaths)
                 /\ ~InArchive(exportResult.blob, imagePaths[k])
                 /\ Len(PhaseCalls("images")) = Len(imagePaths)

\* C22 witness: an export has resolved whose image paths hold one that has no
\* remote URL and one that was fetched and stored.
C22_Witness ==
    /\ pc = "resolved"
    /\ \E k \in 1..Len(imagePaths) :
         Unresolvable(imagePaths[k]) /\ imagePaths[k] \in ToSet(exportResult.failedImagePaths)
    /\ \E k \in 1..Len(imagePaths) : InArchive(exportResult.blob, imagePaths[k])
    /\ ImageFetches # {}

\* the image closures that have been invoked and have not yet ended
ImageWorkers == IF mapper = "image" THEN {w \in Workers : wk[w].st \in {"fetch", "blob"}} ELSE {}

NoRepeat(s) == \A j, k \in 1..Len(s) : s[j] = s[k] => j = k

\* C23: the image paths of the image phase are pairwise distinct, however
\* often the document references one; the closure is invoked at most once for
\* each, each image URL has been fetched exactly once per invoked path that
\* resolves to it, no two closures in flight hold the same path (so no two
\* write the same archive key), the archive never has two entries of one
\* name, and neither the failed image paths nor the failedImagePaths of the
\* result repeat a path.
C23_OncePerPath ==
    /\ NoRepeat(imagePaths)
    /\ mapper = "image" => \A i \in DOMAIN calls : calls[i] <= 1
    /\ \A u \in ImageFetches :
         fetchCount[u] = Cardinality({k \in PathsOfUrl(u) : ImageInvoked(k)})
    /\ \A v, w \in ImageWorkers : items[wk[v].idx + 1] = items[wk[w].idx + 1] => v = w
    /\ NoRepeat(ArchiveNames(zip))
    /\ NoRepeat(failedImagePathSet)
    /\ pc = "resolved" => NoRepeat(exportResult.failedImagePaths)

\* C23 witness: an export has resolved whose document references one image
\* path several times; that path was fetched once and is stored once.
C23_Witness ==
    /\ pc = "resolved"
    /\ \E k \in 1..Len(imagePaths) :
         /\ Cardinality({j \in 1..Len(collectImagePaths(html)) :
                            collectImagePaths(html)[j] = imagePaths[k]}) > 1
         /\ fetchCount[UrlOf(AfterLeadingSlashes(imagePaths[k])).url] = 1
         /\ EntriesNamed(exportResult.blob, imagePaths[k]) = 1

\* images/<questionId>/<filename>, with questionId and filename not empty
CanonicalKey(name) ==
    /\ Len(name) >= 3
    /\ name[1] = "images"
    /\ name[2] # ""
    /\ SubSeq(name, 3, Len(name)) # <<"">>

\* C24: in every reachable state of an export every archive entry other than
\* Questions_Export.html has a key of the form images/<questionId>/<filename>
\* with questionId and filename not empty, whatever src attributes the stems
\* and answers of the records hold.
C24_CanonicalKeys ==
    \A k \in 1..Len(zip) : zip[k].name # HTML_ENTRY => CanonicalKey(zip[k].name)

----------------------------------------------------------------------------
(* Properties of the paragraph tags of addLexicalClass *)

\* the first index from i on whose piece ends an attribute name or an
\* unquoted value (Len + 1 if none)
RECURSIVE WordEnd(_, _)
WordEnd(s, i) ==
    IF i > Len(s) \/ s[i] \in {" ", "=", ">"} THEN i ELSE WordEnd(s, i + 1)

\* The attributes of a tag as a reader of HTML takes them, from the piece at i
\* on up to the ">" that ends the tag: a name, and after "=" a value in double
\* quotes, in single quotes or bare.  A ">" inside a quoted value does not end
\* the tag.
RECURSIVE AttrsFrom(_, _)
AttrsFrom(s, i) ==
    IF i > Len(s) \/ s[i] = ">" THEN <<>>
    ELSE IF IsSpace(s[i]) \/ s[i] = "=" THEN AttrsFrom(s, i + 1)
    ELSE LET ne == WordEnd(s, i)
             e == SkipSpaces(s, ne)
             v == SkipSpaces(s, e + 1)
         IN IF e > Len(s) \/ s[e] # "="
            THEN <<[name |-> SubSeq(s, i, ne - 1), value |-> <<>>]>> \o AttrsFrom(s, ne)
            ELSE IF v <= Len(s) /\ s[v] \in {DQ, SQ}
            THEN LET c == IndexFrom(s, s[v], v + 1)
                     close == IF c = 0 THEN Len(s) + 1 ELSE c
                 IN <<[name |-> SubSeq(s, i, ne - 1), value |-> SubSeq(s, v + 1, close - 1)]>>
                    \o AttrsFrom(s, close + 1)
            ELSE <<[name |-> SubSeq(s, i, ne - 1), value |-> SubSeq(s, v, WordEnd(s, v) - 1)]>>
                 \o AttrsFrom(s, WordEnd(s, v))

\* the paragraph-opening tags of a fragment, in order, each as its attributes
RECURSIVE OpeningTags(_, _)
OpeningTags(s, i) ==
    IF i >= Len(s) THEN <<>>
    ELSE IF s[i] = "<p" /\ (s[i + 1] = ">" \/ IsSpace(s[i + 1]))
    THEN <<AttrsFrom(s, i + 1)>> \o OpeningTags(s, i + 1)
    ELSE OpeningTags(s, i + 1)

\* the values of the attributes of that name
ValuesOf(tag, name) == [k \in {j \in 1..Len(tag) : tag[j].name = <<name>>} |-> tag[k].value]
HasAttribute(tag, name) == DOMAIN ValuesOf(tag, name) # {}
FirstValue(tag, name) ==
    ValuesOf(tag, name)[CHOOSE k \in DOMAIN ValuesOf(tag, name) :
                           \A j \in DOMAIN ValuesOf(tag, name) : k <= j]
Tokens(value) == ToSet(value) \ {" "}
Occurrences(value, token) == Cardinality({k \in 1..Len(value) : value[k] = token})

\* C25: after addLexicalClass(html, d) every paragraph-opening tag of the
\* result has a dir attribute and a class attribute whose value holds the
\* token LexicalTheme__paragraph exactly once; the result has the paragraph
\* tags of the input, each with the class tokens and the dir value it had, in
\* whatever way the attributes of the input tag are spelled.
C25_EveryParagraph ==
    Returned("addLexicalClass") =>
        LET before == OpeningTags(call.html, 1)
            after == OpeningTags(ret, 1)
        IN /\ Len(after) = Len(before)
           /\ \A k \in 1..Len(after) :
                /\ HasAttribute(after[k], "dir")
                /\ HasAttribute(after[k], "class")
                /\ Occurrences(FirstValue(after[k], "class"), THEME) = 1
           /\ \A k \in 1..Len(before) :
                /\ HasAttribute(before[k], "class") =>
                     Tokens(FirstValue(before[k], "class")) \subseteq
                        Tokens(FirstValue(after[k], "class"))
                /\ HasAttribute(before[k], "dir") =>
                     FirstValue(after[k], "dir") = FirstValue(before[k], "dir")

----------------------------------------------------------------------------
(* Properties of the order of the parts *)

\* C26: generateQuestionHTML renders the parts of a record in ascending order
\* of their ordinal n, in whatever order the array content.parts holds them.
C26_OrdinalOrder ==
    (Returned("generateQuestionHTML") /\ ret # Threw) =>
        \A j, k \in 1..Len(ret.parts) :
            (j < k /\ DOMAIN ret.parts[j].partno = {"num"} /\ DOMAIN ret.parts[k].partno = {"num"})
                => ret.parts[j].partno.num <= ret.parts[k].partno.num

----------------------------------------------------------------------------
(* Properties of rewriting and then resolving *)

\* C27: for every question id q that is not empty and every src s that
\* rewriteImagePaths rewrites, resolveImageUrl of the rewritten src
\* images/<q>/<s> is not null and is the asset base followed by /<q>/<s>.
C27_RoundTrip ==
    Returned("rewriteImagePaths") =>
        \A k \in 1..Len(ret) :
            (call.questionId # "" /\ ret[k] # call.html[k]) =>
                /\ resolveImageUrl(ret[k].src) # Null
                /\ resolveImageUrl(ret[k].src) =
                      [url |-> S3_BASE \o IdSegments(call.questionId) \o call.html[k].src]

----------------------------------------------------------------------------
(* Properties of a rejecting operation *)

\* C28: whenever a bare mapWithConcurrency call is resolved, every result
\* slot 0..items.length-1 holds the value of a completed operation; once an
\* operation has rejected the call is never resolved, a rejected call stays
\* rejected, and the call does reject.
C28_RejectsOrFills ==
    /\ [](mapState = "resolved" =>
            /\ DOMAIN results = Indices
            /\ \A i \in Indices : results[i] # Hole /\ returned[i] = results[i] /\ calls[i] = 1)
    /\ [](SomeOpRejected => mapState # "resolved")
    /\ [][(mapState = "rejected") => (mapState' = "rejected")]_vars
    /\ (SomeOpRejected ~> (mapState = "rejected"))

\* C28 witness: a call has rejected after an operation rejected, with a slot
\* written, a slot never written and another operation still in flight.
C28_Witness ==
    /\ pc = "map" /\ mapState = "rejected" /\ SomeOpRejected
    /\ \E i \in Indices : results[i] # Hole
    /\ \E i \in Indices : results[i] = Hole
    /\ InFlight # {}

----------------------------------------------------------------------------
(* Properties of QuestionRenderer *)

\* C29: once an effect of QuestionRenderer has been cleaned up, by an unmount
\* or by a render with other dependencies, its onload handler passes no
\* further status to onStatusChange and posts no init message, wherever the
\* handler was at the cleanup: before the load event, in the fetch or in the
\* parsing of the response; and its iframe is not the current one.
C29_QuietAfterCleanup ==
    /\ [][\A e \in DOMAIN effects :
            effects[e].aborted =>
                /\ effects'[e].statusChanges = effects[e].statusChanges
                /\ effects'[e].inits = effects[e].inits]_vars
    /\ [](\A e \in DOMAIN effects :
            effects[e].aborted =>
                /\ iframeRef # e
                /\ (effects[e].cleanedAt = "loading" => effects[e].st = "loading"))

\* C29 witness: one effect was cleaned up during its fetch and another during
\* the parsing of its response, both handlers have ended since, and neither
\* reported more than 'loading'.
C29_Witness ==
    /\ pc = "unmounted"
    /\ Len(effects) = 2
    /\ effects[1].cleanedAt = "fetch" /\ effects[2].cleanedAt = "json"
    /\ \A e \in 1..2 :
         effects[e].st = "done" /\ effects[e].statusChanges = <<"loading">> /\ effects[e].inits = 0

\* C30: once the status of QuestionRenderer is 'error', a message of the
\* engine changes neither the status displayed nor the status reported to the
\* parent.
C30_ErrorSticky ==
    [][(status = "error" /\ \E event \in MessageEvents : handleMessage(event)) =>
          (status' = status /\ reported' = reported)]_vars

====
